---- MODULE Spec2Model ----
(***************************************************************************)
(* good-drawer: the streaming SVG path parser (PathParser), the progressive *)
(* canvas renderer (CanvasDrawer) and the session owner (DrawingApp).       *)
(*                                                                          *)
(* Text is a sequence of one-character strings.  Positions are 1-based, and *)
(* 0 stands for JavaScript's "not found" (-1).  Path-data numbers are       *)
(* signed decimal integers: the documents of the model use no "." and no    *)
(* exponent.                                                                *)
(***************************************************************************)
EXTENDS Integers, Sequences, FiniteSets, TLC

VARIABLES
    parser,     \* PathParser: buffer, currentStyle, svgStarted (+ hung)
    stream,     \* the document being fed to the parser and what it emitted
    walk,       \* parseD's token walk, one loop iteration at a time
    drawer,     \* CanvasDrawer
    app         \* DrawingApp

vars == <<parser, stream, walk, drawer, app>>

(***************************************************************************)
(* Characters                                                               *)
(***************************************************************************)
Min(a, b) == IF a <= b THEN a ELSE b

Max(a, b) == IF a >= b THEN a ELSE b

IsWs(c) == c \in {" ", "\n", "\t"}

IsDigit(c) == c \in {"0", "1", "2", "3", "4", "5", "6", "7", "8", "9"}

DigitVal(c) ==
    CASE c = "0" -> 0 [] c = "1" -> 1 [] c = "2" -> 2 [] c = "3" -> 3
      [] c = "4" -> 4 [] c = "5" -> 5 [] c = "6" -> 6 [] c = "7" -> 7
      [] c = "8" -> 8 [] c = "9" -> 9

\* the /i flag of the regular expressions: letters compare in lower case
Lower(c) ==
    CASE c = "P" -> "p" [] c = "A" -> "a" [] c = "T" -> "t" [] c = "H" -> "h"
      [] c = "D" -> "d" [] c = "S" -> "s" [] c = "R" -> "r" [] c = "O" -> "o"
      [] c = "K" -> "k" [] c = "E" -> "e" [] c = "W" -> "w" [] c = "I" -> "i"
      [] OTHER -> c

\* s.slice(p - 1) in 1-based positions
SliceFrom(s, p) == SubSeq(s, p, Len(s))

\* does pat occur in s at position p (exactly / ignoring case)
MatchAt(s, p, pat) ==
    /\ p >= 1
    /\ p + Len(pat) - 1 <= Len(s)
    /\ s[p] = pat[1]
    /\ \A k \in 2..Len(pat) : s[p + k - 1] = pat[k]

MatchAtCI(s, p, pat) ==
    /\ p >= 1
    /\ p + Len(pat) - 1 <= Len(s)
    /\ Lower(s[p]) = pat[1]
    /\ \A k \in 2..Len(pat) : Lower(s[p + k - 1]) = pat[k]

\* the least member of a non-empty set of positions, 0 for the empty set
First(ps) == IF ps = {} THEN 0 ELSE CHOOSE q \in ps : \A r \in ps : q <= r

\* String.prototype.indexOf(pat, from): first position >= p, 0 when absent
IndexOfFrom(s, pat, p) ==
    First({q \in p..(Len(s) - Len(pat) + 1) : MatchAt(s, q, pat)})

IndexOf(s, pat) == IndexOfFrom(s, pat, 1)

\* first position >= p that holds no whitespace (Len(s) + 1 at the end): \s*
RECURSIVE SkipWs(_, _)
SkipWs(s, p) ==
    IF p <= Len(s) /\ IsWs(s[p]) THEN SkipWs(s, p + 1) ELSE p

\* first position >= p that holds no digit: \d*
RECURSIVE SkipDigits(_, _)
SkipDigits(s, p) ==
    IF p <= Len(s) /\ IsDigit(s[p]) THEN SkipDigits(s, p + 1) ELSE p

\* first position >= p that holds one of the characters of cs, 0 when absent
FindChar(s, cs, p) == First({q \in p..Len(s) : s[q] \in cs})

\* the value of a run of decimal digits
RECURSIVE DigitsValue(_)
DigitsValue(ds) ==
    IF ds = <<>> THEN 0
    ELSE 10 * DigitsValue(SubSeq(ds, 1, Len(ds) - 1)) + DigitVal(ds[Len(ds)])

(***************************************************************************)
(* PathParser                                                               *)
(***************************************************************************)
SvgMarker == <<"<", "s", "v", "g">>

PathOpen == <<"<", "p", "a", "t", "h">>

PathClose == <<"/", ">">>

DefaultStroke == <<"#", "0", "0", "0">>

DefaultStrokeWidth == 3

PreambleWindow == 100

BufferWarnSize == 50000

ArcParams == 7

DefaultStyle == [stroke |-> DefaultStroke, strokeWidth |-> DefaultStrokeWidth]

\* the state the constructor leaves; hung is TRUE once a feed() call is caught
\* in a loop that never ends (nothing runs after that in the page)
NewParser ==
    [buffer |-> <<>>, currentStyle |-> DefaultStyle, svgStarted |-> FALSE,
     hung |-> FALSE]

CommandLetters ==
    {"M", "m", "L", "l", "H", "h", "V", "v", "C", "c", "S", "s", "Q", "q",
     "T", "t", "A", "a", "Z", "z"}

CmdTok(c) == [k |-> "cmd", c |-> c, v |-> 0]

NumTok(n) == [k |-> "num", c |-> "", v |-> n]

\* /^[-+.\d]/.test(token)
IsNumTok(t) == t.k = "num"

\* /[MmLl...Zz]|[-+]?(?:\d+\.?\d*|\.\d+)(?:[eE][-+]?\d+)?/ tried at position p
\* of text without "." and exponents: a command letter, or an optional sign
\* and digits
TokenAt(d, p) ==
    LET s == IF d[p] \in {"-", "+"} THEN p + 1 ELSE p
        e == SkipDigits(d, s)
        mag == DigitsValue(SubSeq(d, s, e - 1))
    IN  IF d[p] \in CommandLetters THEN [found |-> TRUE, tok |-> CmdTok(d[p])]
        ELSE IF e > s
        THEN [found |-> TRUE, tok |-> NumTok(IF d[p] = "-" THEN 0 - mag ELSE mag)]
        ELSE [found |-> FALSE, tok |-> NumTok(0)]

\* the positions where the matches of d.match(/.../g) start: where the
\* expression matches, except inside the number that started further left
TokenStarts(d) ==
    {p \in 1..Len(d) :
        /\ TokenAt(d, p).found
        /\ ~(IsDigit(d[p]) /\ p > 1 /\ (IsDigit(d[p - 1]) \/ d[p - 1] \in {"-", "+"}))}

\* d.match(/.../g) || []
Tokenize(d) ==
    LET starts == TokenStarts(d)
        Kth(k) == CHOOSE p \in starts : Cardinality({q \in starts : q < p}) = k - 1
    IN  IF starts = {} THEN <<>>
        ELSE SubSeq([k \in 1..Cardinality(starts) |-> TokenAt(d, Kth(k)).tok],
                    1, Cardinality(starts))

\* this.buffer.slice(-100), the tail a warning carries
BufferTail(buffer) ==
    IF Len(buffer) > PreambleWindow
    THEN SubSeq(buffer, Len(buffer) - PreambleWindow + 1, Len(buffer))
    ELSE buffer

\* warn(type, details)
Warning(type, details, buffer) ==
    [type |-> type, details |-> details, buffer |-> BufferTail(buffer)]

\* emit(type, coords): the segment with a copy of the current style
SegXY(type, x, y, style) == [type |-> type, x |-> x, y |-> y, style |-> style]

SegQ(x1, y1, x, y, style) ==
    [type |-> "Q", x1 |-> x1, y1 |-> y1, x |-> x, y |-> y, style |-> style]

SegC(x1, y1, x2, y2, x, y, style) ==
    [type |-> "C", x1 |-> x1, y1 |-> y1, x2 |-> x2, y2 |-> y2,
     x |-> x, y |-> y, style |-> style]

\* the locals of parseD: the tokens, the index i, the pen, the sub-path start,
\* and what the walk has passed to onSegment / onWarning so far
NewWalk(tokens) ==
    [tokens |-> tokens, i |-> 1, currentX |-> 0, currentY |-> 0,
     startX |-> 0, startY |-> 0, segs |-> <<>>, warns |-> <<>>]

\* parseFloat(tokens[j]) with NaN read as 0; 0 past the end of the tokens
NumAt(tokens, j) ==
    IF j > Len(tokens) THEN 0
    ELSE IF IsNumTok(tokens[j]) THEN tokens[j].v
    ELSE 0

\* the k-th readNum() from the walk's position
Num(W, k) == NumAt(W.tokens, W.i + k - 1)

\* the index after n calls of readNum(): i++ only while i < tokens.length
AfterReads(W, n) == [W EXCEPT !.i = Min(W.i + n, Len(W.tokens) + 1)]

\* the number of numeric tokens in a row from position j
RECURSIVE NumRun(_, _)
NumRun(tokens, j) ==
    IF j <= Len(tokens) /\ IsNumTok(tokens[j]) THEN 1 + NumRun(tokens, j + 1)
    ELSE 0

\* one parameter group of command cmd: the body of the case's loop
Group(cmd, W, style) ==
    LET a == Num(W, 1)
        b == Num(W, 2)
        c == Num(W, 3)
        d == Num(W, 4)
        e == Num(W, 5)
        f == Num(W, 6)
        cx == W.currentX
        cy == W.currentY
    IN  CASE cmd = "M" ->
               [AfterReads(W, 2) EXCEPT
                   !.currentX = a, !.currentY = b, !.startX = a, !.startY = b,
                   !.segs = Append(@, SegXY("M", a, b, style))]
          [] cmd = "m" ->
               [AfterReads(W, 2) EXCEPT
                   !.currentX = cx + a, !.currentY = cy + b,
                   !.startX = cx + a, !.startY = cy + b,
                   !.segs = Append(@, SegXY("M", cx + a, cy + b, style))]
          [] cmd = "L" ->
               [AfterReads(W, 2) EXCEPT
                   !.currentX = a, !.currentY = b,
                   !.segs = Append(@, SegXY("L", a, b, style))]
          [] cmd = "l" ->
               [AfterReads(W, 2) EXCEPT
                   !.currentX = cx + a, !.currentY = cy + b,
                   !.segs = Append(@, SegXY("L", cx + a, cy + b, style))]
          [] cmd = "H" ->
               [AfterReads(W, 1) EXCEPT
                   !.currentX = a,
                   !.segs = Append(@, SegXY("L", a, cy, style))]
          [] cmd = "h" ->
               [AfterReads(W, 1) EXCEPT
                   !.currentX = cx + a,
                   !.segs = Append(@, SegXY("L", cx + a, cy, style))]
          [] cmd = "V" ->
               [AfterReads(W, 1) EXCEPT
                   !.currentY = a,
                   !.segs = Append(@, SegXY("L", cx, a, style))]
          [] cmd = "v" ->
               [AfterReads(W, 1) EXCEPT
                   !.currentY = cy + a,
                   !.segs = Append(@, SegXY("L", cx, cy + a, style))]
          [] cmd = "C" ->
               [AfterReads(W, 6) EXCEPT
                   !.currentX = e, !.currentY = f,
                   !.segs = Append(@, SegC(a, b, c, d, e, f, style))]
          [] cmd = "c" ->
               [AfterReads(W, 6) EXCEPT
                   !.currentX = cx + e, !.currentY = cy + f,
                   !.segs = Append(@, SegC(cx + a, cy + b, cx + c, cy + d,
                                           cx + e, cy + f, style))]
          [] cmd = "Q" ->
               [AfterReads(W, 4) EXCEPT
                   !.currentX = c, !.currentY = d,
                   !.segs = Append(@, SegQ(a, b, c, d, style))]
          [] cmd = "q" ->
               [AfterReads(W, 4) EXCEPT
                   !.currentX = cx + c, !.currentY = cy + d,
                   !.segs = Append(@, SegQ(cx + a, cy + b, cx + c, cy + d, style))]

\* the loop of a case run for one parameter group only
RepeatOnce(cmd, W, style) ==
    IF W.i <= Len(W.tokens) /\ IsNumTok(W.tokens[W.i])
    THEN Group(cmd, W, style)
    ELSE W

\* the loop of a case with every group resolved against the pen the command
\* started from
RECURSIVE RepeatStalePen(_, _, _)
RepeatStalePen(cmd, W, style) ==
    IF W.i <= Len(W.tokens) /\ IsNumTok(W.tokens[W.i])
    THEN RepeatStalePen(cmd,
             [Group(cmd, W, style) EXCEPT !.currentX = W.currentX,
                                          !.currentY = W.currentY], style)
    ELSE W

\* while (i < tokens.length && /^[-+.\d]/.test(tokens[i])) { one group }
RECURSIVE Repeat(_, _, _)
Repeat(cmd, W, style) ==
    IF W.i <= Len(W.tokens) /\ IsNumTok(W.tokens[W.i])
    THEN Repeat(cmd, Group(cmd, W, style), style)
    ELSE W

\* case 'Z' / 'z' with the pen left where it is
ClosePathKeepsPen(W, style) ==
    [W EXCEPT !.segs = Append(@, SegXY("Z", W.startX, W.startY, style))]

\* case 'Z' / 'z'
ClosePath(W, style) ==
    [W EXCEPT !.segs = Append(@, SegXY("Z", W.startX, W.startY, style)),
              !.currentX = W.startX, !.currentY = W.startY]

\* the arc case with the pen moved to the arc's end point
SkipArcMovesPen(W, cmd, buffer) ==
    [W EXCEPT !.warns = Append(@, Warning("unknown_command",
                            [command |-> cmd, reason |-> "arcs not supported"],
                            buffer)),
              !.i = W.i + Min(ArcParams, NumRun(W.tokens, W.i)),
              !.currentX = NumAt(W.tokens, W.i + 5),
              !.currentY = NumAt(W.tokens, W.i + 6)]

\* case 'A' / 'a': warn, then readNum() for at most 7 numeric tokens
SkipArc(W, cmd, buffer) ==
    [W EXCEPT !.warns = Append(@, Warning("unknown_command",
                            [command |-> cmd, reason |-> "arcs not supported"],
                            buffer)),
              !.i = W.i + Min(ArcParams, NumRun(W.tokens, W.i))]

\* the smooth case reading one coordinate pair at most
SkipSmoothOnePair(W, cmd, buffer) ==
    [W EXCEPT !.warns = Append(@, Warning("unknown_command",
                            [command |-> cmd,
                             reason |-> "smooth curves not yet supported"],
                            buffer)),
              !.i = W.i + Min(2, NumRun(W.tokens, W.i))]

\* case 'S' / 's' / 'T' / 't': warn, then readNum() while the token is numeric
SkipSmooth(W, cmd, buffer) ==
    [W EXCEPT !.warns = Append(@, Warning("unknown_command",
                            [command |-> cmd,
                             reason |-> "smooth curves not yet supported"],
                            buffer)),
              !.i = W.i + NumRun(W.tokens, W.i)]

\* one iteration of parseD's while (i < tokens.length) loop, from W.i <= Len
Iteration(W, style, buffer) ==
    LET cmd == W.tokens[W.i]
        W1 == [W EXCEPT !.i = @ + 1]
        \* case 'M' / 'm': one moveTo, then the loop of implicit lineTos
        Moved(c, line) == Repeat(line, Group(c, W1, style), style)
    IN  IF IsNumTok(cmd) THEN W                     \* continue, with i as it was
        ELSE CASE cmd.c \in {"M", "m"} ->
                    Moved(cmd.c, IF cmd.c = "M" THEN "L" ELSE "l")
               [] cmd.c \in {"L", "l", "H", "h", "V", "v", "C", "c", "Q", "q"} ->
                    Repeat(cmd.c, W1, style)
               [] cmd.c \in {"Z", "z"} -> ClosePath(W1, style)
               [] cmd.c \in {"A", "a"} -> SkipArc(W1, cmd.c, buffer)
               [] cmd.c \in {"S", "s", "T", "t"} -> SkipSmooth(W1, cmd.c, buffer)
               [] OTHER ->
                    [W1 EXCEPT !.warns = Append(@,
                        Warning("unknown_command", [command |-> cmd.c], buffer))]

\* the whole loop. An iteration that leaves i where it was repeats for ever:
\* the result then says hung, with what had been emitted before.
RECURSIVE WalkAll(_, _, _)
WalkAll(W, style, buffer) ==
    LET Next(N) == IF N.i = W.i
                   THEN [segs |-> W.segs, warns |-> W.warns, hung |-> TRUE]
                   ELSE WalkAll(N, style, buffer)
    IN  IF W.i > Len(W.tokens)
        THEN [segs |-> W.segs, warns |-> W.warns, hung |-> FALSE]
        ELSE Next(Iteration(W, style, buffer))

\* parseD(d)
ParseD(d, style, buffer) == WalkAll(NewWalk(Tokenize(d)), style, buffer)

\* attrs.match(/name\s*=\s*[quotes]([^quotes]{minLen,})[quotes]/i) tried at p
AttrAt(attrs, p, name, quotes, minLen) ==
    LET a == SkipWs(attrs, p + Len(name))
        b == SkipWs(attrs, a + 1)
        c == FindChar(attrs, quotes, b + 1)
    IN  IF /\ MatchAtCI(attrs, p, name)
           /\ a <= Len(attrs) /\ attrs[a] = "="
           /\ b <= Len(attrs) /\ attrs[b] \in quotes
           /\ c # 0 /\ c - b - 1 >= minLen
        THEN [found |-> TRUE, value |-> SubSeq(attrs, b + 1, c - 1)]
        ELSE [found |-> FALSE, value |-> <<>>]

\* the leftmost match of the attribute, as String.prototype.match finds it
AttrFrom(attrs, p, name, quotes, minLen) ==
    LET at == First({q \in p..Len(attrs) : AttrAt(attrs, q, name, quotes, minLen).found})
    IN  IF at = 0 THEN [found |-> FALSE, value |-> <<>>]
        ELSE AttrAt(attrs, at, name, quotes, minLen)

\* /d\s*=\s*"([^"]*)"/i  ||  /d\s*=\s*'([^']*)'/i
DMatch(attrs) ==
    LET dq == AttrFrom(attrs, 1, <<"d">>, {"\""}, 0)
    IN  IF dq.found THEN dq ELSE AttrFrom(attrs, 1, <<"d">>, {"'"}, 0)

\* /stroke\s*=\s*["']([^"']+)["']/i
StrokeMatch(attrs) ==
    AttrFrom(attrs, 1, <<"s", "t", "r", "o", "k", "e">>, {"\"", "'"}, 1)

\* /stroke-width\s*=\s*["']([^"']+)["']/i
WidthMatch(attrs) ==
    AttrFrom(attrs, 1,
             <<"s", "t", "r", "o", "k", "e", "-", "w", "i", "d", "t", "h">>,
             {"\"", "'"}, 1)

\* parseFloat(s): leading whitespace, an optional sign, digits; NaN without digits
ParseFloat(s) ==
    LET p == SkipWs(s, 1)
        q == IF p <= Len(s) /\ s[p] \in {"-", "+"} THEN p + 1 ELSE p
        e == SkipDigits(s, q)
        mag == DigitsValue(SubSeq(s, q, e - 1))
    IN  IF e > q
        THEN [nan |-> FALSE,
              v |-> IF p <= Len(s) /\ s[p] = "-" THEN 0 - mag ELSE mag]
        ELSE [nan |-> TRUE, v |-> 0]

\* parseFloat(widthMatch[1]) || 3
StrokeWidthOf(text) ==
    LET f == ParseFloat(text)
    IN  IF f.nan \/ f.v = 0 THEN DefaultStrokeWidth ELSE f.v

\* parsePath(attrs) that walks the path data before it reads the style
ParsePathStylesAfter(P, attrs) ==
    LET Styled(strokeMatch, widthMatch) ==
            [stroke |-> IF strokeMatch.found THEN strokeMatch.value
                        ELSE P.currentStyle.stroke,
             strokeWidth |-> IF widthMatch.found
                             THEN StrokeWidthOf(widthMatch.value)
                             ELSE P.currentStyle.strokeWidth]
        Parsed(style, r) ==
            [parser |-> [P EXCEPT !.currentStyle = style, !.hung = r.hung],
             segs |-> r.segs, warns |-> r.warns]
        WithStyle(d, style) == Parsed(style, ParseD(d, P.currentStyle, P.buffer))
        WithD(dMatch) ==
            IF ~dMatch.found
            THEN [parser |-> P, segs |-> <<>>,
                  warns |-> <<Warning("parse_error",
                                      [reason |-> "no d attribute", attrs |-> attrs],
                                      P.buffer)>>]
            ELSE WithStyle(dMatch.value, Styled(StrokeMatch(attrs), WidthMatch(attrs)))
    IN  WithD(DMatch(attrs))

\* parsePath(attrs), on the parser P; what it emits is returned beside P
ParsePath(P, attrs) ==
    LET Styled(strokeMatch, widthMatch) ==
            [stroke |-> IF strokeMatch.found THEN strokeMatch.value
                        ELSE P.currentStyle.stroke,
             strokeWidth |-> IF widthMatch.found
                             THEN StrokeWidthOf(widthMatch.value)
                             ELSE P.currentStyle.strokeWidth]
        Parsed(style, r) ==
            [parser |-> [P EXCEPT !.currentStyle = style, !.hung = r.hung],
             segs |-> r.segs, warns |-> r.warns]
        WithStyle(d, style) == Parsed(style, ParseD(d, style, P.buffer))
        WithD(dMatch) ==
            IF ~dMatch.found
            THEN [parser |-> P, segs |-> <<>>,
                  warns |-> <<Warning("parse_error",
                                      [reason |-> "no d attribute", attrs |-> attrs],
                                      P.buffer)>>]
            ELSE WithStyle(dMatch.value, Styled(StrokeMatch(attrs), WidthMatch(attrs)))
    IN  WithD(DMatch(attrs))

\* the first position >= p of "<path" and a whitespace, ignoring case; 0 if none
PathOpenFrom(buffer, p) ==
    First({q \in p..(Len(buffer) - Len(PathOpen)) :
              MatchAtCI(buffer, q, PathOpen) /\ IsWs(buffer[q + Len(PathOpen)])})

\* /<path\s+([\s\S]*?)\/>/gi .exec(buffer) from lastIndex (characters consumed):
\* the leftmost "<path" + whitespace that a "/>" follows, up to the first "/>"
ExecPathRegex(buffer, lastIndex) ==
    LET p == PathOpenFrom(buffer, lastIndex + 1)
        q == IF p = 0 THEN 0
             ELSE IndexOfFrom(buffer, PathClose, p + Len(PathOpen) + 1)
    IN  IF q = 0 THEN [found |-> FALSE, attrs |-> <<>>, lastIndex |-> 0]
        ELSE [found |-> TRUE,
              attrs |-> SubSeq(buffer, SkipWs(buffer, p + Len(PathOpen)), q - 1),
              lastIndex |-> q + 1]

\* the while loop of extractPaths left at the first element that warns
RECURSIVE ExtractLoopStopsOnWarning(_, _, _, _)
ExtractLoopStopsOnWarning(P, lastIndex, segs, warns) ==
    LET Parsed(match, r) ==
            IF r.parser.hung
            THEN [parser |-> r.parser, lastIndex |-> lastIndex,
                  segs |-> segs \o r.segs, warns |-> warns \o r.warns]
            ELSE IF r.warns # <<>>
            THEN [parser |-> r.parser, lastIndex |-> match.lastIndex,
                  segs |-> segs \o r.segs, warns |-> warns \o r.warns]
            ELSE ExtractLoopStopsOnWarning(r.parser, match.lastIndex,
                                           segs \o r.segs, warns \o r.warns)
        Matched(match) ==
            IF ~match.found
            THEN [parser |-> P, lastIndex |-> lastIndex, segs |-> segs, warns |-> warns]
            ELSE Parsed(match, ParsePath(P, match.attrs))
    IN  Matched(ExecPathRegex(P.buffer, lastIndex))

\* the while loop of extractPaths
RECURSIVE ExtractLoop(_, _, _, _)
ExtractLoop(P, lastIndex, segs, warns) ==
    LET Parsed(match, r) ==
            IF r.parser.hung
            THEN [parser |-> r.parser, lastIndex |-> lastIndex,
                  segs |-> segs \o r.segs, warns |-> warns \o r.warns]
            ELSE ExtractLoop(r.parser, match.lastIndex,
                             segs \o r.segs, warns \o r.warns)
        Matched(match) ==
            IF ~match.found
            THEN [parser |-> P, lastIndex |-> lastIndex, segs |-> segs, warns |-> warns]
            ELSE Parsed(match, ParsePath(P, match.attrs))
    IN  Matched(ExecPathRegex(P.buffer, lastIndex))

\* extractPaths() that forgets the unparsed rest of the buffer
ExtractPathsDropsRest(P) ==
    LET Rest(r) == [parser |-> [r.parser EXCEPT !.buffer = <<>>],
                    segs |-> r.segs, warns |-> r.warns]
    IN  Rest(ExtractLoop(P, 0, <<>>, <<>>))

\* extractPaths() that leaves the parsed elements in the buffer
ExtractPathsKeepsAll(P) ==
    LET Rest(r) == [parser |-> r.parser, segs |-> r.segs, warns |-> r.warns]
    IN  Rest(ExtractLoop(P, 0, <<>>, <<>>))

\* extractPaths()
ExtractPaths(P) ==
    LET Kept(r) == IF r.lastIndex > 0
                   THEN SliceFrom(r.parser.buffer, r.lastIndex + 1)
                   ELSE r.parser.buffer
        Rest(r, kept) ==
            IF r.parser.hung
            THEN [parser |-> r.parser, segs |-> r.segs, warns |-> r.warns]
            ELSE [parser |-> [r.parser EXCEPT !.buffer = kept],
                  segs |-> r.segs,
                  warns |-> IF Len(kept) > BufferWarnSize
                            THEN Append(r.warns,
                                     Warning("buffer_overflow", [size |-> Len(kept)],
                                             kept))
                            ELSE r.warns]
        Looped(r) == Rest(r, Kept(r))
    IN  Looped(ExtractLoop(P, 0, <<>>, <<>>))

\* the preamble window that keeps nothing while waiting for "<svg"
KeepTailNothing(buffer) == <<>>

\* the preamble window that keeps the whole buffer
KeepTailWhole(buffer) == buffer

\* no "<svg" yet: keep only the last 100 characters
KeepTail(buffer) ==
    IF Len(buffer) > PreambleWindow
    THEN SubSeq(buffer, Len(buffer) - PreambleWindow + 1, Len(buffer))
    ELSE buffer

\* feed(chunk)
Feed(P, chunk) ==
    LET Found(buffer, svgStart) ==
            IF P.svgStarted THEN [P EXCEPT !.buffer = buffer]
            ELSE IF svgStart = 0 THEN [P EXCEPT !.buffer = KeepTail(buffer)]
            ELSE [P EXCEPT !.buffer = SliceFrom(buffer, svgStart),
                           !.svgStarted = TRUE]
        Started(Q) ==
            IF Q.svgStarted THEN ExtractPaths(Q)
            ELSE [parser |-> Q, segs |-> <<>>, warns |-> <<>>]
        Appended(buffer) == Started(Found(buffer, IndexOf(buffer, SvgMarker)))
    IN  Appended(P.buffer \o chunk)

\* reset() that leaves the current style as it is
ResetKeepsStyle(P) == [P EXCEPT !.buffer = <<>>, !.svgStarted = FALSE]

\* reset()
Reset(P) ==
    [P EXCEPT !.buffer = <<>>, !.currentStyle = DefaultStyle, !.svgStarted = FALSE]

(***************************************************************************)
(* Numbers of the renderer.  JavaScript's doubles are modelled by exact     *)
(* fractions [n, d] with d > 0, not reduced; where two fractions meet, the  *)
(* denominator of one divides the other's.  A square root is rounded down   *)
(* to a multiple of 1 / LengthScale.                                        *)
(***************************************************************************)
LengthScale == 10

R(k) == [n |-> k, d |-> 1]

Fr(n, d) == [n |-> n, d |-> d]

\* the numerator of a over the denominator d
Over(a, d) == a.n * (d \div a.d)

RAdd(a, b) ==
    LET d == Max(a.d, b.d)
    IN  [n |-> Over(a, d) + Over(b, d), d |-> d]

\* the largest r with r * r <= v, for v >= 0
ISqrt(v) == CHOOSE r \in 0..Min(v, 46340) : r * r <= v /\ v < (r + 1) * (r + 1)

\* Math.sqrt(n / d), rounded down to a multiple of 1 / LengthScale
Sqrt(n, d) ==
    LET m == LengthScale * LengthScale
        scaled == (n \div d) * m + ((n % d) * m) \div d
    IN  [n |-> ISqrt(scaled), d |-> LengthScale]

(***************************************************************************)
(* CanvasDrawer: geometry                                                   *)
(***************************************************************************)
pixelsPerFrame == 8

minFramesPerSegment == 3

BezierSamples == 10

\* lineLength(x1, y1, x2, y2)
lineLength(x1, y1, x2, y2) ==
    LET d == Max(Max(x1.d, y1.d), Max(x2.d, y2.d))
        dx == Over(x2, d) - Over(x1, d)
        dy == Over(y2, d) - Over(y1, d)
    IN  Sqrt(dx * dx + dy * dy, d * d)

\* a + (x - a) * t
LinearAt(a, x, t) ==
    [n |-> a.n * t.d + (x * a.d - a.n) * t.n, d |-> a.d * t.d]

\* mt * mt * a + 2 * mt * t * x1 + t * t * x, with mt = 1 - t
QuadraticAt(a, x1, x, t) ==
    LET mt == t.d - t.n
    IN  [n |-> mt * mt * a.n + 2 * mt * t.n * x1 * a.d + t.n * t.n * x * a.d,
         d |-> a.d * t.d * t.d]

\* mt3 * a + 3 * mt2 * t * x1 + 3 * mt * t2 * x2 + t3 * x, with mt = 1 - t
CubicAt(a, x1, x2, x, t) ==
    LET mt == t.d - t.n
    IN  [n |-> mt * mt * mt * a.n + 3 * mt * mt * t.n * x1 * a.d
               + 3 * mt * t.n * t.n * x2 * a.d + t.n * t.n * t.n * x * a.d,
         d |-> a.d * t.d * t.d * t.d]

\* interpolatePoint(type, startX, startY, segment, t)
interpolatePoint(type, startX, startY, segment, t) ==
    CASE type \in {"L", "Z"} ->
           [x |-> LinearAt(startX, segment.x, t),
            y |-> LinearAt(startY, segment.y, t)]
      [] type = "Q" ->
           [x |-> QuadraticAt(startX, segment.x1, segment.x, t),
            y |-> QuadraticAt(startY, segment.y1, segment.y, t)]
      [] type = "C" ->
           [x |-> CubicAt(startX, segment.x1, segment.x2, segment.x, t),
            y |-> CubicAt(startY, segment.y1, segment.y2, segment.y, t)]
      [] OTHER -> [x |-> R(segment.x), y |-> R(segment.y)]

\* bezierLength: the chord that ends at sample i
Chord(type, startX, startY, segment, i) ==
    LET prev == IF i = 1 THEN [x |-> startX, y |-> startY]
                ELSE interpolatePoint(type, startX, startY, segment,
                                      Fr(i - 1, BezierSamples))
        pt == interpolatePoint(type, startX, startY, segment, Fr(i, BezierSamples))
    IN  lineLength(prev.x, prev.y, pt.x, pt.y)

\* bezierLength: the chords that end at the samples lo..hi, added up, in
\* units of 1 / LengthScale
RECURSIVE ChordSum(_, _, _, _, _, _)
ChordSum(type, startX, startY, segment, lo, hi) ==
    IF lo = hi THEN Chord(type, startX, startY, segment, lo).n
    ELSE ChordSum(type, startX, startY, segment, lo, (lo + hi) \div 2)
         + ChordSum(type, startX, startY, segment, (lo + hi) \div 2 + 1, hi)

\* bezierLength(type, startX, startY, segment)
bezierLength(type, startX, startY, segment) ==
    Fr(ChordSum(type, startX, startY, segment, 1, BezierSamples), LengthScale)

\* a + (b - a) * t, for a and b over the same denominator
Lerp(a, b, t) == [n |-> a.n * t.d + (b.n - a.n) * t.n, d |-> a.d * t.d]

\* the number v over the denominator of a
Like(v, a) == [n |-> v * a.d, d |-> a.d]

\* drawPartialQuadratic(startX, startY, segment, t): what quadraticCurveTo gets
drawPartialQuadratic(startX, startY, segment, t) ==
    LET x1 == Lerp(startX, Like(segment.x1, startX), t)
        y1 == Lerp(startY, Like(segment.y1, startY), t)
        x2 == Lerp(Like(segment.x1, startX), Like(segment.x, startX), t)
        y2 == Lerp(Like(segment.y1, startY), Like(segment.y, startY), t)
    IN  [x1 |-> x1, y1 |-> y1, x |-> Lerp(x1, x2, t), y |-> Lerp(y1, y2, t)]

\* drawPartialCubic(startX, startY, segment, t): what bezierCurveTo gets
drawPartialCubic(startX, startY, segment, t) ==
    LET ax == Lerp(startX, Like(segment.x1, startX), t)
        ay == Lerp(startY, Like(segment.y1, startY), t)
        bx == Lerp(Like(segment.x1, startX), Like(segment.x2, startX), t)
        by == Lerp(Like(segment.y1, startY), Like(segment.y2, startY), t)
        cx == Lerp(Like(segment.x2, startX), Like(segment.x, startX), t)
        cy == Lerp(Like(segment.y2, startY), Like(segment.y, startY), t)
        dx == Lerp(ax, bx, t)
        dy == Lerp(ay, by, t)
        ex == Lerp(bx, cx, t)
        ey == Lerp(by, cy, t)
    IN  [x1 |-> ax, y1 |-> ay, x2 |-> dx, y2 |-> dy,
         x |-> Lerp(dx, ex, t), y |-> Lerp(dy, ey, t)]

(***************************************************************************)
(* CanvasDrawer: the 2D context.  path is the current path as the list of   *)
(* its curves, point its current point, ink what stroke() has painted.      *)
(***************************************************************************)
NoSegment == [type |-> "none"]

NoPoint == [has |-> FALSE, x |-> R(0), y |-> R(0)]

Pt(x, y) == [has |-> TRUE, x |-> x, y |-> y]

\* a curve of the path: from (x0, y0) to (x, y) with up to two control points
Prim(type, from, x1, y1, x2, y2, x, y) ==
    [type |-> type, x0 |-> from.x, y0 |-> from.y, x1 |-> x1, y1 |-> y1,
     x2 |-> x2, y2 |-> y2, x |-> x, y |-> y]

beginPath(D) == [D EXCEPT !.path = <<>>, !.point = NoPoint]

moveTo(D, x, y) == [D EXCEPT !.point = Pt(x, y)]

lineTo(D, x, y) ==
    IF ~D.point.has THEN moveTo(D, x, y)
    ELSE [D EXCEPT !.path = Append(@, Prim("L", D.point, x, y, x, y, x, y)),
                   !.point = Pt(x, y)]

quadraticCurveTo(D, x1, y1, x, y) ==
    LET from == IF D.point.has THEN D.point ELSE Pt(x1, y1)
    IN  [D EXCEPT !.path = Append(@, Prim("Q", from, x1, y1, x1, y1, x, y)),
                  !.point = Pt(x, y)]

bezierCurveTo(D, x1, y1, x2, y2, x, y) ==
    LET from == IF D.point.has THEN D.point ELSE Pt(x1, y1)
    IN  [D EXCEPT !.path = Append(@, Prim("C", from, x1, y1, x2, y2, x, y)),
                  !.point = Pt(x, y)]

\* stroke(); full records whether the stroke covers its segment to the end
stroke(D, full) ==
    [D EXCEPT !.ink = @ \cup {[prim |-> D.path[k], stroke |-> D.strokeStyle,
                               width |-> D.lineWidth, full |-> full] :
                              k \in 1..Len(D.path)}]

clearRect(D) == [D EXCEPT !.ink = {}]

CanvasStroke == <<"#", "0", "0", "0", "0", "0", "0">>

CanvasLineWidth == 1

(***************************************************************************)
(* CanvasDrawer: state and operations.  frames is the set of animation      *)
(* frame requests the browser still has to run.  The fields from added on   *)
(* are history: added counts the segments ever enqueued and log lists them, *)
(* uids numbers the queued ones in enqueue order, begun and finished log    *)
(* the segments dequeued and completed, clearedUpTo is added at the last    *)
(* clear(), lastOp names the last operation.                                *)
(***************************************************************************)
NewDrawer ==
    [queue |-> <<>>, isDrawing |-> FALSE, animationId |-> 0,
     currentSegment |-> NoSegment, segmentProgress |-> R(0),
     segmentStartX |-> R(0), segmentStartY |-> R(0), segmentLength |-> R(0),
     penX |-> R(0), penY |-> R(0), pathStarted |-> FALSE,
     strokeStyle |-> CanvasStroke, lineWidth |-> CanvasLineWidth,
     path |-> <<>>, point |-> NoPoint, ink |-> {}, frames |-> {},
     added |-> 0, log |-> <<>>, uids |-> <<>>, currentUid |-> 0, begun |-> <<>>,
     finished |-> <<>>, clearedUpTo |-> 0, lastOp |-> "new"]

\* segment.style?.stroke || '#000' and segment.style?.strokeWidth || 3
ApplyStyle(D, segment) ==
    [D EXCEPT !.strokeStyle = IF segment.style.stroke = <<>> THEN DefaultStroke
                              ELSE segment.style.stroke,
              !.lineWidth = IF segment.style.strokeWidth = 0
                            THEN DefaultStrokeWidth
                            ELSE segment.style.strokeWidth]

\* the segment has been completed with the pen where D has it
Finished(D, uid) ==
    [D EXCEPT !.finished = Append(@, [uid |-> uid, x |-> D.penX, y |-> D.penY])]

\* queue.shift(): the head leaves the queue
Shift(D) ==
    [D EXCEPT !.queue = Tail(@), !.uids = Tail(@), !.currentUid = Head(D.uids),
              !.begun = Append(@, [uid |-> Head(D.uids), after |-> D.clearedUpTo])]

\* beginSegmentAnimation(segment)
beginSegmentAnimation(D, segment) ==
    LET type == segment.type
        length == IF type \in {"L", "Z"}
                  THEN lineLength(D.penX, D.penY, R(segment.x), R(segment.y))
                  ELSE IF type \in {"Q", "C"}
                  THEN bezierLength(type, D.penX, D.penY, segment)
                  ELSE R(0)
    IN  ApplyStyle([D EXCEPT !.currentSegment = segment,
                             !.segmentProgress = R(0),
                             !.segmentStartX = D.penX,
                             !.segmentStartY = D.penY,
                             !.segmentLength = length], segment)

\* advanceSegmentAnimation() for a MoveTo that takes a frame of its own:
\* the pen moves and the segment stays in progress
AdvanceMoveStays(D, segment) ==
    LET D1 == IF D.pathStarted THEN stroke(D, TRUE) ELSE D
        D2 == moveTo(beginPath(D1), R(segment.x), R(segment.y))
    IN  [D2 EXCEPT !.penX = R(segment.x), !.penY = R(segment.y),
                   !.pathStarted = TRUE,
                   !.currentSegment = SegXY("L", segment.x, segment.y, segment.style),
                   !.segmentProgress = R(0),
                   !.segmentStartX = R(segment.x), !.segmentStartY = R(segment.y),
                   !.segmentLength = R(0)]

\* advanceSegmentAnimation(), for a MoveTo
AdvanceMove(D, segment) ==
    LET D1 == IF D.pathStarted THEN stroke(D, TRUE) ELSE D
        D2 == moveTo(beginPath(D1), R(segment.x), R(segment.y))
    IN  Finished([D2 EXCEPT !.penX = R(segment.x), !.penY = R(segment.y),
                            !.pathStarted = TRUE,
                            !.currentSegment = NoSegment], D.currentUid)

\* advanceSegmentAnimation(), for a segment that is drawn
AdvanceDrawn(D, segment) ==
    LET type == segment.type
        progressIncrement ==
            IF D.segmentLength.n > 0
            THEN Fr(pixelsPerFrame * D.segmentLength.d, D.segmentLength.n)
            ELSE Fr(1, minFramesPerSegment)
        \* beginPath(); moveTo(segmentStartX, segmentStartY)
        Begun(progress) ==
            moveTo(beginPath([D EXCEPT !.segmentProgress = progress,
                                       !.pathStarted = TRUE]),
                   D.segmentStartX, D.segmentStartY)
        Line(E, pt) == lineTo(E, pt.x, pt.y)
        Quadratic(E, q) == quadraticCurveTo(E, q.x1, q.y1, q.x, q.y)
        Cubic(E, c) == bezierCurveTo(E, c.x1, c.y1, c.x2, c.y2, c.x, c.y)
        Drawn(E, progress) ==
            CASE type \in {"L", "Z"} ->
                   Line(E, interpolatePoint(type, D.segmentStartX, D.segmentStartY,
                                            segment, progress))
              [] type = "Q" ->
                   Quadratic(E, drawPartialQuadratic(D.segmentStartX, D.segmentStartY,
                                                     segment, progress))
              [] type = "C" ->
                   Cubic(E, drawPartialCubic(D.segmentStartX, D.segmentStartY,
                                             segment, progress))
              [] OTHER -> E
        \* stroke(); pen = pt
        Stroked(E, pt, done) == [stroke(E, done) EXCEPT !.penX = pt.x, !.penY = pt.y]
        \* if (this.segmentProgress >= 1) { ... }
        Completed(E, done) ==
            IF done
            THEN Finished([moveTo(beginPath(E), R(segment.x), R(segment.y))
                              EXCEPT !.penX = R(segment.x), !.penY = R(segment.y),
                                     !.pathStarted = IF type = "Z" THEN FALSE ELSE @,
                                     !.currentSegment = NoSegment], D.currentUid)
            ELSE E
        At(progress, done) ==
            Completed(Stroked(Drawn(Begun(progress), progress),
                              interpolatePoint(type, D.segmentStartX, D.segmentStartY,
                                               segment, progress),
                              done),
                      done)
        \* Math.min(1, segmentProgress + progressIncrement)
        Advanced(sum) == At(IF sum.n >= sum.d THEN R(1) ELSE sum, sum.n >= sum.d)
    IN  Advanced(RAdd(D.segmentProgress, progressIncrement))

\* advanceSegmentAnimation() that leaves the sub-path open after a ClosePath
advanceKeepsPathOpen(D) ==
    IF D.currentSegment = NoSegment THEN D
    ELSE IF D.currentSegment.type = "M" THEN AdvanceMove(D, D.currentSegment)
    ELSE [AdvanceDrawn(D, D.currentSegment) EXCEPT !.pathStarted = TRUE]

\* advanceSegmentAnimation()
advanceSegmentAnimation(D) ==
    IF D.currentSegment = NoSegment THEN D
    ELSE IF D.currentSegment.type = "M" THEN AdvanceMove(D, D.currentSegment)
    ELSE AdvanceDrawn(D, D.currentSegment)

\* requestAnimationFrame() that never gets its callback run
RequestFrameLost(D) ==
    LET used == D.frames \cup {D.animationId}
        id == CHOOSE k \in 1..(Cardinality(used) + 1) : k \notin used
    IN  [D EXCEPT !.animationId = id]

\* requestAnimationFrame(): a handle no outstanding request has
RequestFrame(D) ==
    LET used == D.frames \cup {D.animationId}
        id == CHOOSE k \in 1..(Cardinality(used) + 1) :
                  k \notin used /\ \A j \in 1..(k - 1) : j \in used
    IN  [D EXCEPT !.frames = @ \cup {id}, !.animationId = id]

\* the variant of draw() that looks at the head of the queue and leaves it there
DrawPeeks(D) ==
    LET Begin(E) ==
            IF E.currentSegment = NoSegment /\ E.queue # <<>>
            THEN beginSegmentAnimation(
                     [E EXCEPT !.currentUid = Head(E.uids),
                               !.begun = Append(@, [uid |-> Head(E.uids),
                                                   after |-> E.clearedUpTo])],
                     Head(E.queue))
            ELSE E
        Advance(E) ==
            IF E.currentSegment # NoSegment THEN advanceSegmentAnimation(E) ELSE E
        Continue(E) ==
            IF E.currentSegment # NoSegment \/ E.queue # <<>>
            THEN RequestFrame(E)
            ELSE [E EXCEPT !.isDrawing = FALSE]
    IN  IF ~D.isDrawing THEN D ELSE Continue(Advance(Begin(D)))

\* the variant of draw() that asks for the next frame whatever is left
DrawKeepsLooping(D) ==
    LET Begin(E) ==
            IF E.currentSegment = NoSegment /\ E.queue # <<>>
            THEN beginSegmentAnimation(Shift(E), Head(E.queue))
            ELSE E
        Advance(E) ==
            IF E.currentSegment # NoSegment THEN advanceSegmentAnimation(E) ELSE E
    IN  IF ~D.isDrawing THEN D ELSE RequestFrame(Advance(Begin(D)))

\* draw(): one frame step
Draw(D) ==
    LET Begin(E) ==
            IF E.currentSegment = NoSegment /\ E.queue # <<>>
            THEN beginSegmentAnimation(Shift(E), Head(E.queue))
            ELSE E
        Advance(E) ==
            IF E.currentSegment # NoSegment THEN advanceSegmentAnimation(E) ELSE E
        Continue(E) ==
            IF E.currentSegment # NoSegment \/ E.queue # <<>>
            THEN RequestFrame(E)
            ELSE [E EXCEPT !.isDrawing = FALSE]
    IN  IF ~D.isDrawing THEN D ELSE Continue(Advance(Begin(D)))

\* startDrawing()
StartDrawing(D) ==
    IF D.isDrawing THEN D ELSE Draw([D EXCEPT !.isDrawing = TRUE])

\* stopDrawing() that leaves the frame callback scheduled
StopDrawingLeavesFrame(D) == [D EXCEPT !.isDrawing = FALSE]

\* stopDrawing() that cancels the frame callback and leaves isDrawing set
StopDrawingKeepsFlag(D) ==
    IF D.animationId # 0
    THEN [D EXCEPT !.frames = @ \ {D.animationId}, !.animationId = 0]
    ELSE D

\* stopDrawing()
StopDrawing(D) ==
    IF D.animationId # 0
    THEN [D EXCEPT !.isDrawing = FALSE, !.frames = @ \ {D.animationId},
                   !.animationId = 0]
    ELSE [D EXCEPT !.isDrawing = FALSE]

\* addSegment(segment)
AddSegment(D, segment) ==
    LET Pushed(E) == IF ~E.isDrawing THEN StartDrawing(E) ELSE E
    IN  Pushed([D EXCEPT !.queue = Append(@, segment),
                         !.uids = Append(@, D.added + 1),
                         !.added = @ + 1, !.log = Append(@, segment),
                         !.lastOp = "addSegment"])

\* drawSegmentInstant(segment), the segment being the one Shift has taken
DrawSegmentInstant(D, segment) ==
    LET S == ApplyStyle(D, segment)
        x == R(segment.x)
        y == R(segment.y)
        \* if (!this.pathStarted) { beginPath(); moveTo(penX, penY); pathStarted = true }
        Open == IF S.pathStarted THEN S
                ELSE [moveTo(beginPath(S), S.penX, S.penY) EXCEPT !.pathStarted = TRUE]
        \* stroke(); beginPath(); moveTo(x, y); pen = (x, y)
        Close(E) == [moveTo(beginPath(stroke(E, TRUE)), x, y)
                        EXCEPT !.penX = x, !.penY = y]
    IN  CASE segment.type = "M" ->
               Finished([moveTo(beginPath(IF S.pathStarted THEN stroke(S, TRUE) ELSE S), x, y)
                            EXCEPT !.penX = x, !.penY = y, !.pathStarted = TRUE],
                        D.currentUid)
          [] segment.type = "L" ->
               Finished(Close(lineTo(Open, x, y)), D.currentUid)
          [] segment.type = "C" ->
               Finished(Close(bezierCurveTo(Open, R(segment.x1), R(segment.y1),
                                            R(segment.x2), R(segment.y2), x, y)),
                        D.currentUid)
          [] segment.type = "Q" ->
               Finished(Close(quadraticCurveTo(Open, R(segment.x1), R(segment.y1), x, y)),
                        D.currentUid)
          [] segment.type = "Z" ->
               IF S.pathStarted
               THEN Finished([stroke(lineTo(S, x, y), TRUE)
                                 EXCEPT !.penX = x, !.penY = y,
                                        !.pathStarted = FALSE], D.currentUid)
               ELSE Finished(S, D.currentUid)
          [] OTHER -> Finished(S, D.currentUid)

\* the while loop of flush()
RECURSIVE FlushQueue(_)
FlushQueue(D) ==
    IF D.queue = <<>> THEN D
    ELSE FlushQueue(DrawSegmentInstant(Shift(D), Head(D.queue)))

\* flush() that leaves the loop running: without the stopDrawing() at its end
FlushKeepsLoop(D) ==
    LET Complete(E) ==
            IF E.currentSegment # NoSegment
            THEN [advanceSegmentAnimation([E EXCEPT !.segmentProgress = R(1)])
                     EXCEPT !.currentSegment = NoSegment]
            ELSE E
    IN  [FlushQueue(Complete(D)) EXCEPT !.lastOp = "flush"]

\* flush()
Flush(D) ==
    LET Complete(E) ==
            IF E.currentSegment # NoSegment
            THEN [advanceSegmentAnimation([E EXCEPT !.segmentProgress = R(1)])
                     EXCEPT !.currentSegment = NoSegment]
            ELSE E
    IN  [StopDrawing(FlushQueue(Complete(D))) EXCEPT !.lastOp = "flush"]

\* the variant of clear() that leaves the queue as it is
ClearKeepsQueue(D) ==
    [clearRect(StopDrawing(D))
        EXCEPT !.currentSegment = NoSegment, !.segmentProgress = R(0),
               !.penX = R(0), !.penY = R(0), !.pathStarted = FALSE,
               !.clearedUpTo = D.added, !.lastOp = "clear"]

\* clear()
Clear(D) ==
    [clearRect(StopDrawing(D))
        EXCEPT !.queue = <<>>, !.uids = <<>>,
               !.currentSegment = NoSegment, !.segmentProgress = R(0),
               !.penX = R(0), !.penY = R(0), !.pathStarted = FALSE,
               !.clearedUpTo = D.added, !.lastOp = "clear"]

\* hasPending()
HasPending(D) ==
    D.queue # <<>> \/ D.isDrawing \/ D.currentSegment # NoSegment

\* the browser runs the callback of frame request id: draw()
RunFrame(D, id) ==
    [Draw([D EXCEPT !.frames = @ \ {id}]) EXCEPT !.lastOp = "draw"]

(***************************************************************************)
(* DrawingApp: the session owner.  currentId 0 stands for null, and the     *)
(* request ids are numbered in the order crypto.randomUUID() hands them     *)
(* out (issued is the last one).  sent lists what went out on the socket,   *)
(* intervals counts the interval timers of startLoading that are running.   *)
(* handled counts the messages received and last names the last handler     *)
(* that ran, with the type and id of its message.  A world is the app with  *)
(* its parser and its drawer.                                               *)
(***************************************************************************)
MAX_BUFFER_SIZE == 200000

MaxPromptLength == 512

NoMessage == [op |-> "new", type |-> "", id |-> 0]

NewApp ==
    [currentId |-> 0, bufferSize |-> 0, isLoading |-> FALSE,
     elapsedTimer |-> FALSE, intervals |-> 0, streaming |-> FALSE,
     status |-> "", sent |-> <<>>, issued |-> 0, handled |-> 0,
     last |-> NoMessage]

World(A, P, D) == [app |-> A, parser |-> P, drawer |-> D]

\* setStatus(text, isError)
setStatus(A, text) == [A EXCEPT !.status = text]

\* startLoading()
startLoading(A) ==
    [A EXCEPT !.isLoading = TRUE, !.status = "Drawing...",
              !.elapsedTimer = TRUE, !.intervals = @ + 1]

\* stopLoading()
stopLoading(A) ==
    [A EXCEPT !.isLoading = FALSE, !.elapsedTimer = FALSE,
              !.intervals = IF A.elapsedTimer THEN @ - 1 ELSE @]

\* cancel(); open is ws.readyState === WebSocket.OPEN
cancel(A, open) ==
    IF A.currentId # 0 /\ open
    THEN [A EXCEPT !.sent = Append(@, [type |-> "cancel", id |-> A.currentId])]
    ELSE A

\* the parser's onSegment callback, for the segments of one feed() in turn
RECURSIVE AddSegments(_, _)
AddSegments(D, segs) ==
    IF segs = <<>> THEN D
    ELSE AddSegments(AddSegment(D, Head(segs)), Tail(segs))

\* handleMessage, case 'chunk', feeding whatever the size
HandleChunkUncapped(W, data, open) ==
    LET Fed(A, r) == World(A, r.parser, AddSegments(W.drawer, r.segs))
    IN  Fed([stopLoading(W.app) EXCEPT !.bufferSize = @ + Len(data)],
            Feed(W.parser, data))

\* handleMessage, case 'chunk'
HandleChunk(W, data, open) ==
    LET Fed(A, r) == World(A, r.parser, AddSegments(W.drawer, r.segs))
        Sized(A) ==
            IF A.bufferSize > MAX_BUFFER_SIZE
            THEN World(cancel(setStatus(A, "Drawing too complex"), open),
                       W.parser, W.drawer)
            ELSE Fed(A, Feed(W.parser, data))
    IN  Sized([stopLoading(W.app) EXCEPT !.bufferSize = @ + Len(data)])

\* handleMessage, the switch on msg.type
Dispatch(W, msg, open) ==
    CASE msg.type = "start" ->
           World([W.app EXCEPT !.bufferSize = 0, !.streaming = TRUE, !.status = ""],
                 Reset(W.parser), W.drawer)
      [] msg.type = "chunk" -> HandleChunk(W, msg.data, open)
      [] msg.type = "done" ->
           World([stopLoading(W.app) EXCEPT !.streaming = FALSE],
                 W.parser, Flush(W.drawer))
      [] msg.type = "cancelled" ->
           World([stopLoading(W.app) EXCEPT !.streaming = FALSE],
                 W.parser, W.drawer)
      [] msg.type = "error" ->
           World(setStatus([stopLoading(W.app) EXCEPT !.streaming = FALSE],
                           msg.message),
                 W.parser, W.drawer)
      [] OTHER -> W

\* handleMessage without its first line
HandleMessageOfAnyId(W, msg, open) == Dispatch(W, msg, open)

\* handleMessage(msg); a message without an id has id 0
HandleMessage(W, msg, open) ==
    IF msg.id # 0 /\ msg.id # W.app.currentId THEN W
    ELSE Dispatch(W, msg, open)

\* sendDraw() with the parser left as it is
SendDrawKeepsParser(W, promptLength, open) ==
    IF promptLength = 0 \/ promptLength > MaxPromptLength THEN W
    ELSE LET id == W.app.issued + 1
         IN  World([startLoading(cancel(W.app, open))
                       EXCEPT !.currentId = id, !.bufferSize = 0, !.issued = id],
                   W.parser, Clear(W.drawer))

\* sendDraw() that cancels before it looks at the prompt
SendDrawCancelsFirst(W, promptLength, open) ==
    IF promptLength = 0 \/ promptLength > MaxPromptLength
    THEN World(cancel(W.app, open), W.parser, W.drawer)
    ELSE LET id == W.app.issued + 1
             A == [startLoading(cancel(W.app, open))
                      EXCEPT !.currentId = id, !.bufferSize = 0, !.issued = id]
         IN  World(IF open
                   THEN [A EXCEPT !.sent = Append(@, [type |-> "draw", id |-> id])]
                   ELSE setStatus(A, "Not connected"),
                   Reset(W.parser), Clear(W.drawer))

\* sendDraw(); promptLength is the length of the trimmed prompt
SendDraw(W, promptLength, open) ==
    IF promptLength = 0 THEN W
    ELSE IF promptLength > MaxPromptLength
    THEN World(setStatus(W.app, "Prompt too long (max 512 chars)"),
               W.parser, W.drawer)
    ELSE LET id == W.app.issued + 1
             A == [startLoading(cancel(W.app, open))
                      EXCEPT !.currentId = id, !.bufferSize = 0, !.issued = id]
         IN  World(IF open
                   THEN [A EXCEPT !.sent = Append(@, [type |-> "draw", id |-> id])]
                   ELSE setStatus(A, "Not connected"),
                   Reset(W.parser), Clear(W.drawer))

\* clearCanvas()
ClearCanvas(W) ==
    World([stopLoading(W.app) EXCEPT !.streaming = FALSE, !.currentId = 0],
          Reset(W.parser), Clear(W.drawer))

\* clearInput()
ClearInput(W, open) ==
    ClearCanvas(World(cancel(W.app, open), W.parser, W.drawer))

(***************************************************************************)
(* Documents streamed to the parser                                         *)
(***************************************************************************)
\* garbage<svg><path d="M10 10 L20 20 L30 10 Z" stroke="#f00"/></svg>
Doc1 ==
    <<"g","a","r","b","a","g","e","<","s","v","g",">","<","p","a","t","h"," ","d","=","\"","M",
    "1","0"," ","1","0"," ","L","2","0"," ","2","0"," ","L","3","0"," ","1","0"," ","Z","\"",
    " ","s","t","r","o","k","e","=","\"","#","f","0","0","\"","/",">","<","/","s","v","g",">">>

\* Sure! Let me think: a <sv g tag, then <path d="M9 9"/> maybe.. I will draw a small hook shape now, ok:<svg><path d="M1 2 l3 4"/>
Doc2 ==
    <<"S","u","r","e","!"," ","L","e","t"," ","m","e"," ","t","h","i","n","k",":"," ","a"," ",
    "<","s","v"," ","g"," ","t","a","g",","," ","t","h","e","n"," ","<","p","a","t","h"," ","d",
    "=","\"","M","9"," ","9","\"","/",">"," ","m","a","y","b","e",".","."," ","I"," ","w","i",
    "l","l"," ","d","r","a","w"," ","a"," ","s","m","a","l","l"," ","h","o","o","k"," ","s","h",
    "a","p","e"," ","n","o","w",","," ","o","k",":","<","s","v","g",">","<","p","a","t","h"," ",
    "d","=","\"","M","1"," ","2"," ","l","3"," ","4","\"","/",">">>

\* <svg>\n<path d='M0 0 l5 5 5 0 C1 2 3 4 5 6 q1 1 2 2 H3 v-4' stroke-width="2"/><PATH\tD="L1 1z"/>
Doc3 ==
    <<"<","s","v","g",">","\n","<","p","a","t","h"," ","d","=","'","M","0"," ","0"," ","l","5",
    " ","5"," ","5"," ","0"," ","C","1"," ","2"," ","3"," ","4"," ","5"," ","6"," ","q","1"," ",
    "1"," ","2"," ","2"," ","H","3"," ","v","-","4","'"," ","s","t","r","o","k","e","-","w","i",
    "d","t","h","=","\"","2","\"","/",">","<","P","A","T","H","\t","D","=","\"","L","1"," ","1",
    "z","\"","/",">">>

\* <svg><path d="M0 0 Z 5 5"/><path d="M1 1"/>
Doc4 ==
    <<"<","s","v","g",">","<","p","a","t","h"," ","d","=","\"","M","0"," ","0"," ","Z"," ","5",
    " ","5","\"","/",">","<","p","a","t","h"," ","d","=","\"","M","1"," ","1","\"","/",">">>

\* x<svg><path stroke="red"/><path d="M1 2 A5 5 0 0 1 9 9 L7 7"/>
Doc5 ==
    <<"x","<","s","v","g",">","<","p","a","t","h"," ","s","t","r","o","k","e","=","\"","r","e",
    "d","\"","/",">","<","p","a","t","h"," ","d","=","\"","M","1"," ","2"," ","A","5"," ","5",
    " ","0"," ","0"," ","1"," ","9"," ","9"," ","L","7"," ","7","\"","/",">">>

Docs == <<Doc1, Doc2, Doc3, Doc4, Doc5>>

\* the document of the run, the part of it fed so far, what the callbacks got
TheDoc == Docs[stream.doc]

Fed == SubSeq(TheDoc, 1, stream.pos)

NewStream(n) ==
    [doc |-> n, pos |-> 0, segs |-> <<>>, warns |-> <<>>,
     splitMarker |-> FALSE, trimmed |-> FALSE, splitPath |-> FALSE]

\* the next k characters of the document arrive as one fragment: parser.feed.
\* splitMarker, trimmed and splitPath record that a fragment boundary fell
\* inside the first "<svg", that the preamble window cut the buffer, and that
\* a feed() returned with the opening of a path element left in the buffer.
FeedFragment(k) ==
    /\ ~parser.hung
    /\ stream.pos + k <= Len(TheDoc)
    /\ \E r \in {Feed(parser, SubSeq(TheDoc, stream.pos + 1, stream.pos + k))} :
       LET ms == IndexOf(TheDoc, SvgMarker)
       IN
        /\ parser' = r.parser
        /\ stream' = [stream EXCEPT
                !.pos = @ + k,
                !.segs = @ \o r.segs,
                !.warns = @ \o r.warns,
                !.splitMarker = @ \/ (ms # 0 /\ stream.pos >= ms
                                      /\ stream.pos < ms + Len(SvgMarker) - 1),
                !.trimmed = @ \/ (~r.parser.svgStarted
                                  /\ Len(parser.buffer) + k > PreambleWindow),
                !.splitPath = @ \/ (r.parser.svgStarted /\ ~r.parser.hung
                                    /\ PathOpenFrom(r.parser.buffer, 1) # 0)]
        /\ UNCHANGED <<walk, drawer, app>>

FeedAny == \E k \in 1..(Len(TheDoc) - stream.pos) : FeedFragment(k)

InitParserRun ==
    /\ parser = NewParser
    /\ stream \in {NewStream(n) : n \in 1..Len(Docs)}
    /\ walk = NewWalk(<<>>)
    /\ drawer = NewDrawer
    /\ app = NewApp

NextParserRun == FeedAny

SpecParser == InitParserRun /\ [][NextParserRun]_vars

\* what one feed() of the whole text gives on a fresh parser
OneShot(text) == Feed(NewParser, text)

\* a warning without the buffer tail it carries
Strip(warns) ==
    [n \in 1..Len(warns) |-> [type |-> warns[n].type, details |-> warns[n].details]]

(***************************************************************************)
(* C1  Fragmentation invariance: however the text fed so far was cut into   *)
(* fragments, the segments emitted are those one feed() of the same text    *)
(* emits on a fresh parser (and the two get stuck on the same element).     *)
(***************************************************************************)
FragmentationInvariance ==
    LET whole == OneShot(Fed)
    IN  /\ stream.segs = whole.segs
        /\ parser.hung = whole.parser.hung

\* a whole document has been fed in fragments that cut a path element in two,
\* and its segments have been emitted
FragmentedDocumentParsed ==
    /\ stream.pos = Len(TheDoc)
    /\ stream.splitPath
    /\ ~parser.hung
    /\ Len(stream.segs) >= 4

(***************************************************************************)
(* C3  Preamble skipping: before "<svg" has occurred in the text fed so far *)
(* neither callback is invoked; once it has, the segments and warnings are  *)
(* those of a document that starts at the marker.                           *)
(***************************************************************************)
PreambleSkipping ==
    LET ms == IndexOf(Fed, SvgMarker)
        bare == OneShot(SliceFrom(Fed, ms))
    IN  IF ms = 0
        THEN stream.segs = <<>> /\ stream.warns = <<>> /\ ~parser.svgStarted
        ELSE /\ stream.segs = bare.segs
             /\ Strip(stream.warns) = Strip(bare.warns)
             /\ parser.svgStarted

\* a preamble longer than the window was cut, the marker itself arrived in
\* two fragments, and the path after it has been parsed
SplitMarkerAfterLongPreamble ==
    /\ stream.trimmed
    /\ stream.splitMarker
    /\ stream.segs # <<>>

(***************************************************************************)
(* parseD's token walk, one loop iteration per step                         *)
(***************************************************************************)
MaxTokens == 4

\* the tokens a path-data string can hold: command letters and numbers
TokenPool ==
    {CmdTok("M"), CmdTok("l"), CmdTok("Q"), CmdTok("Z"), CmdTok("A"),
     CmdTok("T"), NumTok(5)}

TokenLists == UNION {[1..n -> TokenPool] : n \in 1..MaxTokens}

InitWalk ==
    /\ walk \in {NewWalk(tokens) : tokens \in TokenLists}
    /\ parser = NewParser
    /\ stream = NewStream(1)
    /\ drawer = NewDrawer
    /\ app = NewApp

\* while (i < tokens.length) { ... }: one iteration
WalkStep ==
    /\ walk.i <= Len(walk.tokens)
    /\ walk' = Iteration(walk, DefaultStyle, <<>>)
    /\ UNCHANGED <<parser, stream, drawer, app>>

NextWalk == WalkStep

SpecWalk == InitWalk /\ [][NextWalk]_vars

(***************************************************************************)
(* C2  feed() terminates: while tokens remain, the next iteration of        *)
(* parseD's loop changes the loop's state (it moves the index on), so the   *)
(* walk reaches the end of the tokens.  An iteration that changes nothing   *)
(* is repeated for ever.                                                    *)
(***************************************************************************)
ParseDTerminates == walk.i <= Len(walk.tokens) => ENABLED <<WalkStep>>_vars

(***************************************************************************)
(* The renderer driven through its interface: segments are enqueued, the    *)
(* browser runs frame callbacks, flush() and clear() are called at any      *)
(* moment.                                                                  *)
(***************************************************************************)
MaxSegments == 3

SegPool ==
    {SegXY("M", 16, 0, DefaultStyle),
     SegXY("L", 16, 12, DefaultStyle),
     SegQ(16, 0, 16, 12, DefaultStyle),
     SegC(0, 12, 16, 12, 16, 0, DefaultStyle),
     SegXY("Z", 16, 0, DefaultStyle),
     SegXY("Z", 0, 0, DefaultStyle)}

InitDrawer ==
    /\ drawer = NewDrawer
    /\ parser = NewParser
    /\ stream = NewStream(1)
    /\ walk = NewWalk(<<>>)
    /\ app = NewApp

DrawerAdd ==
    /\ drawer.added < MaxSegments
    /\ \E segment \in SegPool : drawer' = AddSegment(drawer, segment)
    /\ UNCHANGED <<parser, stream, walk, app>>

DrawerFrame ==
    /\ \E id \in drawer.frames : drawer' = RunFrame(drawer, id)
    /\ UNCHANGED <<parser, stream, walk, app>>

DrawerFlush ==
    /\ drawer' = Flush(drawer)
    /\ UNCHANGED <<parser, stream, walk, app>>

DrawerClear ==
    /\ drawer' = Clear(drawer)
    /\ UNCHANGED <<parser, stream, walk, app>>

NextDrawer == DrawerAdd \/ DrawerFrame \/ DrawerFlush \/ DrawerClear

SpecDrawer == InitDrawer /\ [][NextDrawer]_vars

\* only addSegment and frame steps
NextAnimation == DrawerAdd \/ DrawerFrame

SpecAnimation == InitDrawer /\ [][NextAnimation]_vars

\* the segments completed so far are the first ones enqueued, each once, in
\* enqueue order, each with the pen on its end point; when nothing is pending
\* all of them are completed and the pen is on the last one's end point
CompletedInOrder ==
    /\ \A k \in 1..Len(drawer.finished) :
          /\ drawer.finished[k].uid = k
          /\ drawer.finished[k].x = R(drawer.log[k].x)
          /\ drawer.finished[k].y = R(drawer.log[k].y)
    /\ ~HasPending(drawer) =>
          /\ Len(drawer.finished) = drawer.added
          /\ drawer.added > 0 =>
                /\ drawer.penX = R(drawer.log[drawer.added].x)
                /\ drawer.penY = R(drawer.log[drawer.added].y)

\* no segment of SegPool takes more frame steps than this
FramesPerSegmentBound == 4

\* one frame step, if a callback is left to run
FrameStep(D) ==
    IF D.frames = {} THEN D ELSE RunFrame(D, CHOOSE id \in D.frames : TRUE)

\* n frame steps, or fewer if no callback is left to run
RECURSIVE RunFrames(_, _)
RunFrames(D, n) ==
    IF D.frames = {} \/ n = 0 THEN D ELSE RunFrames(FrameStep(D), n - 1)

\* a bounded number of frame steps from D ends with nothing pending, every
\* segment completed and the pen on the end point of the last one
RunsToCompletion(D) ==
    LET Ended(E) ==
            /\ ~HasPending(E)
            /\ Len(E.finished) = D.added
            /\ D.added > 0 =>
                  /\ E.penX = R(D.log[D.added].x)
                  /\ E.penY = R(D.log[D.added].y)
    IN  Ended(RunFrames(D, (Len(D.queue) + 1) * FramesPerSegmentBound))

RECURSIVE RunToCompletion(_)
RunToCompletion(D) ==
    IF ~HasPending(D) \/ D.frames = {} THEN D
    ELSE RunToCompletion(RunFrames(D, FramesPerSegmentBound))

\* the full segments on the surface
FullInk(D) ==
    {[prim |-> i.prim, stroke |-> i.stroke, width |-> i.width] :
        i \in {j \in D.ink : j.full}}

\* the same pen, pathStarted and full segments on the surface
SameOutcome(F, E) ==
    /\ F.penX = E.penX
    /\ F.penY = E.penY
    /\ F.pathStarted = E.pathStarted
    /\ FullInk(F) = FullInk(E)

\* C5: whenever flush() is called, it ends with the pen, pathStarted and the
\* set of full segments on the surface that frame steps alone would have
\* ended with.
FlushEquivalence ==
    [][drawer'.lastOp = "flush" => SameOutcome(drawer', RunToCompletion(drawer))]_vars

\* C6: clear() leaves the queue empty, no segment in progress, isDrawing
\* false, no frame callback scheduled, the pen at (0,0) and pathStarted
\* false; no segment enqueued before a clear() is begun after it, none is in
\* progress or queued after it.
ClearIsSafe ==
    /\ drawer.lastOp = "clear" =>
          /\ drawer.queue = <<>>
          /\ drawer.currentSegment = NoSegment
          /\ ~drawer.isDrawing
          /\ drawer.frames = {}
          /\ drawer.penX = R(0) /\ drawer.penY = R(0)
          /\ ~drawer.pathStarted
          /\ ~HasPending(drawer)
    /\ \A k \in 1..Len(drawer.begun) : drawer.begun[k].uid > drawer.begun[k].after
    /\ drawer.currentSegment # NoSegment => drawer.currentUid > drawer.clearedUpTo
    /\ \A k \in 1..Len(drawer.uids) : drawer.uids[k] > drawer.clearedUpTo

\* clear() has just been called with a segment partly animated and another queued
ClearedMidAnimation ==
    /\ drawer.lastOp = "clear"
    /\ Len(drawer.begun) > Len(drawer.finished)
    /\ drawer.clearedUpTo > drawer.begun[Len(drawer.begun)].uid

\* C7: the segments are dequeued in enqueue order, none twice; the queue holds
\* only segments not yet dequeued; the segment in progress is the last one
\* dequeued and is the only dequeued one that clear() has not discarded and
\* that is not completed; completed segments are not
\* queued; when nothing is pending every segment not discarded by clear() has
\* been dequeued and completed.
BegunOnceInOrder ==
    LET begun == drawer.begun
        uids == drawer.uids
        finished == drawer.finished
    IN  /\ Len(uids) = Len(drawer.queue)
        /\ \A j, k \in 1..Len(begun) : j < k => begun[j].uid < begun[k].uid
        /\ \A j, k \in 1..Len(uids) : j < k => uids[j] < uids[k]
        /\ \A j \in 1..Len(begun) : \A k \in 1..Len(uids) : begun[j].uid < uids[k]
        /\ \A j, k \in 1..Len(finished) : j < k => finished[j].uid < finished[k].uid
        /\ \A j \in 1..Len(finished) : \E k \in 1..Len(begun) : begun[k].uid = finished[j].uid
        /\ \A u \in 1..drawer.added :
              \/ \E k \in 1..Len(begun) : begun[k].uid = u
              \/ \E k \in 1..Len(uids) : uids[k] = u
              \/ u <= drawer.clearedUpTo
        /\ drawer.currentSegment # NoSegment =>
              /\ begun # <<>> /\ begun[Len(begun)].uid = drawer.currentUid
              /\ \A j \in 1..Len(finished) : finished[j].uid # drawer.currentUid
        /\ \A k \in 1..Len(begun) :
              (begun[k].uid > drawer.clearedUpTo
                 /\ \A j \in 1..Len(finished) : finished[j].uid # begun[k].uid)
              => drawer.currentSegment # NoSegment /\ begun[k].uid = drawer.currentUid
        /\ ~HasPending(drawer) =>
              \A u \in (drawer.clearedUpTo + 1)..drawer.added :
                 \E j \in 1..Len(finished) : finished[j].uid = u

\* flush() has dequeued what the frame steps had left of three segments
FlushedAfterFrames ==
    /\ drawer.lastOp = "flush"
    /\ Len(drawer.begun) >= 3
    /\ Len(drawer.finished) = Len(drawer.begun)
    /\ drawer.clearedUpTo = 0

(***************************************************************************)
(* The session owner with its parser and renderer: the user sends prompts   *)
(* and clears, the server's messages arrive in any order and with any id    *)
(* handed out so far, the browser runs frame callbacks.                     *)
(***************************************************************************)
MaxRequests == 2

MaxMessages == 3

\* <svg><path d="M16 0 L16 12"/><pa
Chunk1 ==
    <<"<","s","v","g",">","<","p","a","t","h"," ","d","=","\"","M","1","6"," ","0"," ",
    "L","1","6"," ","1","2","\"","/",">","<","p","a">>

\* th d="Z"/>
Chunk2 ==
    <<"t","h"," ","d","=","\"","Z","\"","/",">">>

ChunkPool == {Chunk1, Chunk2}

PromptLengths == {0, 1, MaxPromptLength + 1}

Msg(type, id, data, message) ==
    [type |-> type, id |-> id, data |-> data, message |-> message]

\* the server's messages: pong carries no id
Messages ==
    {Msg("pong", 0, <<>>, "")}
    \cup {Msg(t, id, <<>>, "") : t \in {"start", "done", "cancelled"},
                                 id \in 1..app.issued}
    \cup {Msg("error", id, <<>>, "Generation failed") : id \in 1..app.issued}
    \cup {Msg("chunk", id, data, "") : id \in 1..app.issued, data \in ChunkPool}

TheWorld == World(app, parser, drawer)

\* the handler has returned W
Returned(W, op, type, id) ==
    /\ app' = [W.app EXCEPT !.last = [op |-> op, type |-> type, id |-> id]]
    /\ parser' = W.parser
    /\ drawer' = W.drawer
    /\ UNCHANGED <<stream, walk>>

InitApp ==
    /\ app = NewApp
    /\ parser = NewParser
    /\ drawer = NewDrawer
    /\ stream = NewStream(1)
    /\ walk = NewWalk(<<>>)

AppSendDraw ==
    /\ ~parser.hung
    /\ app.issued < MaxRequests
    /\ \E promptLength \in PromptLengths, open \in BOOLEAN :
          Returned(SendDraw(TheWorld, promptLength, open), "sendDraw", "", 0)

AppClearCanvas ==
    /\ ~parser.hung
    /\ Returned(ClearCanvas(TheWorld), "clearCanvas", "", 0)

AppClearInput ==
    /\ ~parser.hung
    /\ \E open \in BOOLEAN :
          Returned(ClearInput(TheWorld, open), "clearInput", "", 0)

AppMessage ==
    /\ ~parser.hung
    /\ app.handled < MaxMessages
    /\ \E msg \in Messages, open \in BOOLEAN :
          \E W \in {HandleMessage(TheWorld, msg, open)} :
             Returned(World([W.app EXCEPT !.handled = @ + 1], W.parser, W.drawer),
                      "message", msg.type, msg.id)

AppFrame ==
    /\ ~parser.hung
    /\ \E id \in drawer.frames :
          Returned(World(app, parser, RunFrame(drawer, id)), "frame", "", 0)

NextApp ==
    AppSendDraw \/ AppClearCanvas \/ AppClearInput \/ AppMessage \/ AppFrame

SpecApp == InitApp /\ [][NextApp]_vars

\* the last handler got a message of the session that was current
CurrentMessage(type) ==
    /\ app.last.op = "message"
    /\ app.last.type = type
    /\ app.last.id = app.currentId

\* C8: a message that carries an id other than the current one (an earlier
\* session's, after sendDraw or clearCanvas) leaves the parser and the
\* renderer as they were: nothing is fed, flushed or reset.
NoBleedBetweenSessions ==
    [][(app'.last.op = "message" /\ app'.last.id # 0
          /\ app'.last.id # app.currentId)
       => (parser' = parser /\ drawer' = drawer
             /\ app'.bufferSize = app.bufferSize)]_vars

\* a chunk of the first session arrived while the second one was animating
LateChunkIgnored ==
    /\ app.last.op = "message"
    /\ app.last.type = "chunk"
    /\ app.last.id = 1
    /\ app.currentId = 2
    /\ drawer.currentSegment # NoSegment
    /\ parser.buffer # <<>>

\* C9: after 'done' for the current session flush() was the renderer's last
\* operation, after 'cancelled' and after 'error' clear() was, and in all
\* three cases the renderer has nothing pending.
TerminalSignalSettlesRenderer ==
    /\ CurrentMessage("done") => drawer.lastOp = "flush" /\ ~HasPending(drawer)
    /\ CurrentMessage("cancelled") => drawer.lastOp = "clear" /\ ~HasPending(drawer)
    /\ CurrentMessage("error") => drawer.lastOp = "clear" /\ ~HasPending(drawer)

\* C10: a step that changes currentId has called drawer.clear() and
\* parser.reset(): after it the renderer has no queued and no in-progress
\* segment and the parser has an empty buffer, the default style and
\* svgStarted false.
IdChangeResetsBoth ==
    [][app'.currentId # app.currentId
       => (/\ drawer'.lastOp = "clear"
           /\ drawer'.queue = <<>>
           /\ drawer'.currentSegment = NoSegment
           /\ parser'.buffer = <<>>
           /\ parser'.currentStyle = DefaultStyle
           /\ ~parser'.svgStarted)]_vars

\* a second request was sent while segments of the first were still queued
SecondRequestMidAnimation ==
    /\ app.last.op = "sendDraw"
    /\ app.currentId = 2
    /\ drawer.lastOp = "clear"
    /\ drawer.clearedUpTo > Len(drawer.finished)

(***************************************************************************)
(* The token walk over well-formed path data: an optional moveto, one       *)
(* command with complete parameter groups (or an unsupported command with   *)
(* its parameters), and an optional following command.                       *)
(***************************************************************************)
MaxGroups == 2

\* the commands whose case reads parameter groups in a loop
GroupCommands == {"M", "m", "L", "l", "H", "h", "V", "v", "C", "c", "Q", "q"}

\* the number of readNum() calls of one parameter group of the command
Arity(c) ==
    CASE c \in {"M", "m", "L", "l"} -> 2
      [] c \in {"H", "h", "V", "v"} -> 1
      [] c \in {"C", "c"} -> 6
      [] c \in {"Q", "q"} -> 4

Seeds == {-7, 2}

\* n numbers, all different
Row(n, s) == [j \in 1..n |-> NumTok(s + 3 * j)]

\* k groups of n numbers
RECURSIVE Rows(_, _)
Rows(n, k) ==
    IF k = 0 THEN {<<>>}
    ELSE {Row(n, s) \o r : s \in Seeds, r \in Rows(n, k - 1)}

GroupStatements ==
    UNION {UNION {{<<CmdTok(c)>> \o r : r \in Rows(Arity(c), k)} :
                  k \in 1..MaxGroups} : c \in GroupCommands}

ArcStatements == {<<CmdTok(c)>> \o Row(ArcParams, s) : c \in {"A", "a"}, s \in Seeds}

SmoothStatements == {<<CmdTok(c)>> \o Row(2, s) : c \in {"S", "t"}, s \in Seeds}

Prefixes == {<<>>, <<CmdTok("M"), NumTok(10), NumTok(20)>>}

Suffixes ==
    {<<>>, <<CmdTok("L"), NumTok(20), NumTok(20)>>,
     <<CmdTok("l"), NumTok(1), NumTok(2)>>, <<CmdTok("Z")>>}

InitCommands ==
    /\ walk \in {NewWalk(p \o s \o t) :
                    p \in Prefixes,
                    s \in GroupStatements \cup ArcStatements \cup SmoothStatements,
                    t \in Suffixes}
    /\ parser = NewParser
    /\ stream = NewStream(1)
    /\ drawer = NewDrawer
    /\ app = NewApp

SpecCommands == InitCommands /\ [][NextWalk]_vars

\* the walk W stands on the letter of a group command that is followed by
\* k >= 1 complete parameter groups and then by a letter or the end
AtGroups(W, k) ==
    /\ W.i <= Len(W.tokens)
    /\ ~IsNumTok(W.tokens[W.i])
    /\ W.tokens[W.i].c \in GroupCommands
    /\ k >= 1
    /\ NumRun(W.tokens, W.i + 1) = k * Arity(W.tokens[W.i].c)

\* the type of the j-th segment of command c
KindOf(c, j) ==
    IF c \in {"M", "m"} THEN (IF j = 1 THEN "M" ELSE "L")
    ELSE IF c \in {"L", "l", "H", "h", "V", "v"} THEN "L"
    ELSE IF c \in {"C", "c"} THEN "C"
    ELSE "Q"

\* the j-th segment of an absolute command ends where its j-th group says
EndsAtGroup(W, c, j, seg) ==
    LET last == W.i + j * Arity(c)
    IN  /\ c \in {"M", "L", "C", "Q"} =>
              seg.x = W.tokens[last - 1].v /\ seg.y = W.tokens[last].v
        /\ c = "H" => seg.x = W.tokens[last].v
        /\ c = "V" => seg.y = W.tokens[last].v

EmitsOnePerGroup(W, N, k) ==
    LET c == W.tokens[W.i].c
        before == Len(W.segs)
    IN  /\ Len(N.segs) = before + k
        /\ SubSeq(N.segs, 1, before) = W.segs
        /\ N.warns = W.warns
        /\ N.i = W.i + 1 + k * Arity(c)
        /\ \A j \in 1..k :
              /\ N.segs[before + j].type = KindOf(c, j)
              /\ EndsAtGroup(W, c, j, N.segs[before + j])

\* C11: a command letter of M m L l H h V v C c Q q followed by k >= 1
\* complete parameter groups emits exactly k segments, in the order of the
\* groups: for M/m one MoveTo then k-1 LineTo, for L/H/V k LineTo, for C k
\* CubicTo, for Q k QuadraticTo.
ImplicitRepeat ==
    [][\A k \in 1..MaxGroups :
          AtGroups(walk, k) => EmitsOnePerGroup(walk, walk', k)]_vars

\* a lineto followed by four bare numbers has emitted two LineTo segments
LinetoWithTwoGroups ==
    /\ Len(walk.tokens) = 5
    /\ walk.tokens[1] = CmdTok("L")
    /\ walk.i = 6
    /\ Len(walk.segs) = 2
    /\ walk.segs[1].type = "L" /\ walk.segs[2].type = "L"

\* the pen before the j-th group of a relative command with n numbers a group:
\* the pen at the letter plus the end-point offsets of the groups before
RECURSIVE PenXBefore(_, _, _)
PenXBefore(W, n, j) ==
    IF j = 1 THEN W.currentX
    ELSE PenXBefore(W, n, j - 1) + W.tokens[W.i + (j - 1) * n - 1].v

RECURSIVE PenYBefore(_, _, _)
PenYBefore(W, n, j) ==
    IF j = 1 THEN W.currentY
    ELSE PenYBefore(W, n, j - 1) + W.tokens[W.i + (j - 1) * n].v

\* the m-th number of the j-th group of n numbers
Offset(W, n, j, m) == W.tokens[W.i + (j - 1) * n + m].v

ResolvedAgainst(c, seg, px, py, W, j) ==
    /\ c = "c" =>
          /\ seg.x1 = px + Offset(W, 6, j, 1) /\ seg.y1 = py + Offset(W, 6, j, 2)
          /\ seg.x2 = px + Offset(W, 6, j, 3) /\ seg.y2 = py + Offset(W, 6, j, 4)
          /\ seg.x = px + Offset(W, 6, j, 5) /\ seg.y = py + Offset(W, 6, j, 6)
    /\ c = "q" =>
          /\ seg.x1 = px + Offset(W, 4, j, 1) /\ seg.y1 = py + Offset(W, 4, j, 2)
          /\ seg.x = px + Offset(W, 4, j, 3) /\ seg.y = py + Offset(W, 4, j, 4)

RelativeResolved(W, N, k) ==
    LET c == W.tokens[W.i].c
        n == Arity(c)
    IN  /\ Len(N.segs) = Len(W.segs) + k
        /\ \A j \in 1..k :
              ResolvedAgainst(c, N.segs[Len(W.segs) + j],
                              PenXBefore(W, n, j), PenYBefore(W, n, j), W, j)
        /\ N.currentX = PenXBefore(W, n, k + 1)
        /\ N.currentY = PenYBefore(W, n, k + 1)

\* C12: for a relative cubic c or quadratic q reached with the pen at P, the
\* control points and the end point of a segment are P plus their own
\* offsets, the pen after the segment is P plus the end-point offset, and
\* the next group of a repetition is resolved against that new pen.
RelativeAccumulation ==
    [][\A k \in 1..MaxGroups :
          (AtGroups(walk, k) /\ walk.tokens[walk.i].c \in {"c", "q"})
             => RelativeResolved(walk, walk', k)]_vars

\* a relative cubic with two groups was resolved from the pen (10, 20)
RelativeCubicRepeated ==
    /\ Len(walk.tokens) >= 16
    /\ walk.tokens[1] = CmdTok("M")
    /\ walk.tokens[4] = CmdTok("c")
    /\ walk.i = 17
    /\ Len(walk.segs) = 3
    /\ walk.segs[1].x = 10 /\ walk.segs[1].y = 20
    /\ walk.segs[3].type = "C"

\* the walk W stands on an A or a that is followed by exactly its 7 numbers
AtArc(W) ==
    /\ W.i <= Len(W.tokens)
    /\ ~IsNumTok(W.tokens[W.i])
    /\ W.tokens[W.i].c \in {"A", "a"}
    /\ NumRun(W.tokens, W.i + 1) = ArcParams

\* the walk W with the arc it stands on taken out of the path data
WithoutArc(W) ==
    [W EXCEPT !.tokens = SubSeq(W.tokens, 1, W.i - 1)
                         \o SubSeq(W.tokens, W.i + 1 + ArcParams, Len(W.tokens))]

SameRest(a, b) == a.segs = b.segs /\ a.hung = b.hung

ArcSkippedStep(W, N) ==
    /\ N.segs = W.segs
    /\ Len(N.warns) = Len(W.warns) + 1
    /\ SubSeq(N.warns, 1, Len(W.warns)) = W.warns
    /\ N.warns[Len(N.warns)].type = "unknown_command"
    /\ N.warns[Len(N.warns)].details.command = W.tokens[W.i].c
    /\ N.i = W.i + 1 + ArcParams
    /\ SameRest(WalkAll(N, DefaultStyle, <<>>),
                WalkAll(WithoutArc(W), DefaultStyle, <<>>))

\* C13: an A or a followed by its 7 numbers emits one unsupported-command
\* warning and no segment, consumes exactly those 7 numbers, and what
\* follows is parsed as if the arc had not been there.
ArcSkipAlignment == [][AtArc(walk) => ArcSkippedStep(walk, walk')]_vars

\* M10 20 A.. L20 20 walked to the end: MoveTo, one warning, LineTo(20,20)
ArcThenLineto ==
    /\ Len(walk.tokens) = 14
    /\ walk.tokens[4] = CmdTok("A")
    /\ walk.tokens[12] = CmdTok("L")
    /\ walk.i = 15
    /\ Len(walk.warns) = 1
    /\ Len(walk.segs) = 2
    /\ walk.segs[2].type = "L" /\ walk.segs[2].x = 20 /\ walk.segs[2].y = 20

\* C14: after an unsupported arc has been skipped the pen is at the arc's
\* end point, the last two of its 7 numbers.
PenAtArcEnd ==
    [][AtArc(walk) =>
          /\ walk'.currentX = walk.tokens[walk.i + ArcParams - 1].v
          /\ walk'.currentY = walk.tokens[walk.i + ArcParams].v]_vars

(***************************************************************************)
(* The parser fed whole path elements: a document is "<svg>" and up to      *)
(* MaxElements elements of a pool, fed one or more elements a call.  Each   *)
(* element is given with the same element without its unsupported command   *)
(* (nothing at all for the element without d), the stroke and stroke-width  *)
(* it carries (<<>> and 0: none; -1: a stroke-width that is no number), and *)
(* the number of segments and warnings it stands for.                       *)
(***************************************************************************)
MaxElements == 3

\* <path stroke="red"/>
ElNoD ==
    [text |->
        <<"<","p","a","t","h"," ","s","t","r","o","k","e","=","\"","r","e","d","\"","/",
        ">">>,
     clean |->
        <<>>,
     stroke |-> <<>>, width |-> 0, segs |-> 0, warns |-> 1]

\* <path d="M1 2 A5 5 0 0 1 9 9 l7 7"/>
ElArc ==
    [text |->
        <<"<","p","a","t","h"," ","d","=","\"","M","1"," ","2"," ","A","5"," ","5"," ","0",
        " ","0"," ","1"," ","9"," ","9"," ","l","7"," ","7","\"","/",">">>,
     clean |->
        <<"<","p","a","t","h"," ","d","=","\"","M","1"," ","2"," ","l","7"," ","7","\"","/",
        ">">>,
     stroke |-> <<>>, width |-> 0, segs |-> 2, warns |-> 1]

\* <path d='M1 1 T5 5 L2 3'/>
ElSmooth ==
    [text |->
        <<"<","p","a","t","h"," ","d","=","'","M","1"," ","1"," ","T","5"," ","5"," ","L",
        "2"," ","3","'","/",">">>,
     clean |->
        <<"<","p","a","t","h"," ","d","=","'","M","1"," ","1"," ","L","2"," ","3","'","/",
        ">">>,
     stroke |-> <<>>, width |-> 0, segs |-> 2, warns |-> 1]

\* <path d="M3 4 L5 6"/>
ElPlain ==
    [text |->
        <<"<","p","a","t","h"," ","d","=","\"","M","3"," ","4"," ","L","5"," ","6","\"","/",
        ">">>,
     clean |->
        <<"<","p","a","t","h"," ","d","=","\"","M","3"," ","4"," ","L","5"," ","6","\"","/",
        ">">>,
     stroke |-> <<>>, width |-> 0, segs |-> 2, warns |-> 0]

\* <path stroke-width="5" d="M0 0 h4" stroke='blue'/>
ElWide ==
    [text |->
        <<"<","p","a","t","h"," ","s","t","r","o","k","e","-","w","i","d","t","h","=","\"",
        "5","\""," ","d","=","\"","M","0"," ","0"," ","h","4","\""," ","s","t","r","o","k",
        "e","=","'","b","l","u","e","'","/",">">>,
     clean |->
        <<"<","p","a","t","h"," ","s","t","r","o","k","e","-","w","i","d","t","h","=","\"",
        "5","\""," ","d","=","\"","M","0"," ","0"," ","h","4","\""," ","s","t","r","o","k",
        "e","=","'","b","l","u","e","'","/",">">>,
     stroke |-> <<"b","l","u","e">>, width |-> 5, segs |-> 2, warns |-> 0]

\* <path d="M2 2 v3" stroke-width="wide"/>
ElBadWidth ==
    [text |->
        <<"<","p","a","t","h"," ","d","=","\"","M","2"," ","2"," ","v","3","\""," ","s","t",
        "r","o","k","e","-","w","i","d","t","h","=","\"","w","i","d","e","\"","/",">">>,
     clean |->
        <<"<","p","a","t","h"," ","d","=","\"","M","2"," ","2"," ","v","3","\""," ","s","t",
        "r","o","k","e","-","w","i","d","t","h","=","\"","w","i","d","e","\"","/",">">>,
     stroke |-> <<>>, width |-> -1, segs |-> 2, warns |-> 0]

\* <path d="M6 6 L7 8" stroke="#f00"/>
ElRed ==
    [text |->
        <<"<","p","a","t","h"," ","d","=","\"","M","6"," ","6"," ","L","7"," ","8","\""," ",
        "s","t","r","o","k","e","=","\"","#","f","0","0","\"","/",">">>,
     clean |->
        <<"<","p","a","t","h"," ","d","=","\"","M","6"," ","6"," ","L","7"," ","8","\""," ",
        "s","t","r","o","k","e","=","\"","#","f","0","0","\"","/",">">>,
     stroke |-> <<"#","f","0","0">>, width |-> 0, segs |-> 2, warns |-> 0]
Elements == <<ElNoD, ElArc, ElSmooth, ElPlain, ElWide, ElBadWidth, ElRed>>

ElementDocs == UNION {[1..n -> 1..Len(Elements)] : n \in 1..MaxElements}

\* the document, the number of its elements fed, the number of feed() calls,
\* what the callbacks got
NewBatch(doc) == [doc |-> doc, pos |-> 0, calls |-> 0, segs |-> <<>>, warns |-> <<>>]

\* the elements from .. to of the document in a row, as they are or cleaned
RECURSIVE ElementsText(_, _, _, _)
ElementsText(doc, from, to, cleaned) ==
    IF from > to THEN <<>>
    ELSE (IF cleaned THEN Elements[doc[from]].clean ELSE Elements[doc[from]].text)
         \o ElementsText(doc, from + 1, to, cleaned)

\* the fragment that holds the next k elements; the first one opens the svg
Fragment(S, k, cleaned) ==
    (IF S.pos = 0 THEN SvgMarker \o <<">">> ELSE <<>>)
    \o ElementsText(S.doc, S.pos + 1, S.pos + k, cleaned)

InitElements ==
    /\ parser = NewParser
    /\ stream \in {NewBatch(doc) : doc \in ElementDocs}
    /\ walk = NewWalk(<<>>)
    /\ drawer = NewDrawer
    /\ app = NewApp

\* parser.feed of the next k elements in one call
FeedElements(k) ==
    /\ ~parser.hung
    /\ stream.pos + k <= Len(stream.doc)
    /\ \E r \in {Feed(parser, Fragment(stream, k, FALSE))} :
          /\ parser' = r.parser
          /\ stream' = [stream EXCEPT !.pos = @ + k, !.calls = @ + 1,
                                      !.segs = @ \o r.segs,
                                      !.warns = @ \o r.warns]
    /\ UNCHANGED <<walk, drawer, app>>

NextElements == \E k \in 1..MaxElements : FeedElements(k)

SpecElements == InitElements /\ [][NextElements]_vars

\* the number of warnings the elements from .. to of the document stand for
RECURSIVE WarningsOf(_, _, _)
WarningsOf(doc, from, to) ==
    IF from > to THEN 0
    ELSE Elements[doc[from]].warns + WarningsOf(doc, from + 1, to)

\* what the call that fed the elements after S.pos up to N.pos emitted is what
\* the same call emits for the cleaned elements, which warn of nothing
WarningsPassedOver(P, S, N, r) ==
    /\ r.warns = <<>>
    /\ N.segs = S.segs \o r.segs
    /\ Len(N.warns) = Len(S.warns) + WarningsOf(S.doc, S.pos + 1, N.pos)

\* C15: a warning does not end the call: the elements after an element
\* without d or with an unsupported command are parsed and their segments
\* emitted in document order, and so are the commands after an unsupported
\* command in the same path data.
WarningsNeverHalt ==
    [][stream'.pos > stream.pos =>
          WarningsPassedOver(parser, stream, stream',
              Feed(parser, Fragment(stream, stream'.pos - stream.pos, TRUE)))]_vars

\* one call was fed an element without d, one with an arc and a plain one
WarnedTwiceInOneCall ==
    /\ stream.doc = <<1, 2, 4>>
    /\ stream.calls = 1
    /\ stream.pos = 3
    /\ Len(stream.warns) = 2
    /\ Len(stream.segs) = 4
    /\ stream.segs[2].x = 8 /\ stream.segs[2].y = 9
    /\ stream.segs[4].x = 5 /\ stream.segs[4].y = 6

\* the call fed exactly the one element given by its number in the pool
FedAlone(S, N, e) == N.pos = S.pos + 1 /\ S.doc[N.pos] = e

\* C16: an element whose stroke-width is no number leaves the current
\* style's strokeWidth at the value it had before the element, and its path
\* data is parsed.
StrokeWidthFallback ==
    [][FedAlone(stream, stream', 6) =>
          /\ parser'.currentStyle.strokeWidth = parser.currentStyle.strokeWidth
          /\ Len(stream'.segs) = Len(stream.segs) + Elements[6].segs]_vars

\* the style the first n elements of the document leave, by their stroke and
\* stroke-width; the width is -1 from an element whose stroke-width is no
\* number up to the next element that gives one
RECURSIVE StyleAfter(_, _)
StyleAfter(doc, n) ==
    LET Restyled(prev, e) ==
            [stroke |-> IF e.stroke # <<>> THEN e.stroke ELSE prev.stroke,
             strokeWidth |-> IF e.width # 0 THEN e.width ELSE prev.strokeWidth]
    IN  IF n = 0 THEN DefaultStyle
        ELSE Restyled(StyleAfter(doc, n - 1), Elements[doc[n]])

\* the number of segments the first n elements of the document stand for
RECURSIVE SegsBefore(_, _)
SegsBefore(doc, n) ==
    IF n = 0 THEN 0 ELSE SegsBefore(doc, n - 1) + Elements[doc[n]].segs

Carries(seg, style) ==
    /\ seg.style.stroke = style.stroke
    /\ style.strokeWidth # -1 => seg.style.strokeWidth = style.strokeWidth

HasCompleteElement(b) ==
    \E p \in 1..Len(b), q \in 1..Len(b) :
       /\ MatchAtCI(b, p, PathOpen)
       /\ p + Len(PathOpen) <= Len(b)
       /\ IsWs(b[p + Len(PathOpen)])
       /\ q > p + Len(PathOpen)
       /\ MatchAt(b, q, PathClose)

\* the buffer is the end of the text fed, and what was taken off before it
\* ends with the "/>" of an element or is the preamble before "<svg"
RetainedTail(fed, buffer) ==
    LET cut == Len(fed) - Len(buffer)
    IN  /\ cut >= 0
        /\ buffer = SliceFrom(fed, cut + 1)
        /\ \/ cut = IndexOf(fed, SvgMarker) - 1
           \/ MatchAt(fed, cut - 1, PathClose)

\* C18: after a feed() call that returns with svgStarted true the buffer
\* holds no complete path element: the complete elements were parsed and
\* taken off, and the text after the last of them is what is kept.
BufferHoldsNoElement ==
    (parser.svgStarted /\ ~parser.hung) =>
        /\ ~HasCompleteElement(parser.buffer)
        /\ RetainedTail(Fed, parser.buffer)

\* an element was parsed and taken off, the opening of the next one is kept
ElementRemovedTailKept ==
    /\ parser.svgStarted /\ ~parser.hung
    /\ stream.segs # <<>>
    /\ MatchAt(Fed, Len(Fed) - Len(parser.buffer) - 1, PathClose)
    /\ PathOpenFrom(parser.buffer, 1) = 1

(***************************************************************************)
(* The parser fed long text: fragments of filler, the svg opening, an       *)
(* element's beginning and a whole element, in any order.                   *)
(***************************************************************************)
FillerLen == 20000

MaxFragments == 5

Filler == [n \in 1..FillerLen |-> "x"]

FloodPool ==
    <<Filler, SvgMarker \o <<">">>, SubSeq(ElPlain.text, 1, 12), ElPlain.text>>

InitFlood ==
    /\ parser = NewParser
    /\ stream = NewBatch(<<>>)
    /\ walk = NewWalk(<<>>)
    /\ drawer = NewDrawer
    /\ app = NewApp

\* parser.feed of one fragment of the pool
FeedFlood(f) ==
    /\ ~parser.hung
    /\ stream.calls < MaxFragments
    /\ \E r \in {Feed(parser, FloodPool[f])} :
          /\ parser' = r.parser
          /\ stream' = [stream EXCEPT !.pos = @ + Len(FloodPool[f]),
                                      !.calls = @ + 1,
                                      !.segs = @ \o r.segs,
                                      !.warns = @ \o r.warns]
    /\ UNCHANGED <<walk, drawer, app>>

NextFlood == \E f \in 1..Len(FloodPool) : FeedFlood(f)

SpecFlood == InitFlood /\ [][NextFlood]_vars

\* C19: whatever is fed, after each feed() call the buffer is no longer than
\* the bound of the parser's buffer-overflow guard.
BufferBounded == Len(parser.buffer) <= BufferWarnSize

(***************************************************************************)
(* Sessions with long chunks.  The server answers a draw request with       *)
(* start, then chunks, then done; messages arrive on an open socket.  The   *)
(* record in stream keeps, beside the ids started and ended: received, the  *)
(* length of the chunks of the current session since sendDraw; fed, the     *)
(* length of the chunks after which the parser or the renderer was not as   *)
(* before (every chunk of the pool holds a whole element after "<svg", so   *)
(* feeding it emits segments); refused, the number of the others.           *)
(***************************************************************************)
MaxSessions == 2

MaxSessionMessages == 5

BigChunkLen == 120000

\* "<svg ", BigChunkLen characters of no element, and one element
BigChunk == SvgMarker \o <<" ">> \o [n \in 1..BigChunkLen |-> "x"] \o ElPlain.text

SessionChunks == {BigChunk, Chunk1}

NewSession ==
    [started |-> {}, ended |-> {}, received |-> 0, fed |-> 0, refused |-> 0,
     count |-> 0]

InitSession ==
    /\ app = NewApp
    /\ parser = NewParser
    /\ drawer = NewDrawer
    /\ stream = NewSession
    /\ walk = NewWalk(<<>>)

\* the handler has returned W, and S is the record of the sessions
SessionReturned(W, S, op, type, id) ==
    /\ app' = [W.app EXCEPT !.last = [op |-> op, type |-> type, id |-> id]]
    /\ parser' = W.parser
    /\ drawer' = W.drawer
    /\ stream' = S
    /\ UNCHANGED walk

SessionSendDraw ==
    /\ app.issued < MaxSessions
    /\ SessionReturned(SendDraw(TheWorld, 1, TRUE),
                       [stream EXCEPT !.received = 0, !.fed = 0, !.refused = 0],
                       "sendDraw", "", 0)

SessionStart ==
    /\ stream.count < MaxSessionMessages
    /\ \E id \in (1..app.issued) \ stream.started :
          SessionReturned(HandleMessage(TheWorld, Msg("start", id, <<>>, ""), TRUE),
                          [stream EXCEPT !.started = @ \cup {id}, !.count = @ + 1],
                          "message", "start", id)

\* the record after a chunk of session id, handled with the result W
AfterChunk(S, W, id, data) ==
    LET fedNow == W.parser # parser \/ W.drawer # drawer
        current == id = app.currentId
    IN  [S EXCEPT !.count = @ + 1,
                  !.received = IF current THEN @ + Len(data) ELSE @,
                  !.fed = IF fedNow THEN @ + Len(data) ELSE @,
                  !.refused = IF current /\ ~fedNow THEN @ + 1 ELSE @]

SessionChunk ==
    /\ stream.count < MaxSessionMessages
    /\ \E id \in stream.started \ stream.ended, data \in SessionChunks :
          \E W \in {HandleMessage(TheWorld, Msg("chunk", id, data, ""), TRUE)} :
             SessionReturned(W, AfterChunk(stream, W, id, data), "message", "chunk", id)

SessionDone ==
    /\ stream.count < MaxSessionMessages
    /\ \E id \in stream.started \ stream.ended :
          SessionReturned(HandleMessage(TheWorld, Msg("done", id, <<>>, ""), TRUE),
                          [stream EXCEPT !.ended = @ \cup {id}, !.count = @ + 1],
                          "message", "done", id)

NextSession == SessionSendDraw \/ SessionStart \/ SessionChunk \/ SessionDone

SpecSession == InitSession /\ [][NextSession]_vars

\* a chunk of the current session arrived with which the session's total is
\* over the cap
ChunkOverCap(S, N) ==
    /\ N.received > S.received
    /\ N.received > MAX_BUFFER_SIZE

\* C20: the total length of the chunks of a session passed to parser.feed is
\* at most MAX_BUFFER_SIZE; the chunk with which the session's total exceeds
\* the cap and the chunks after it are not fed, and a cancel message with
\* the current id is sent.
SessionByteCap ==
    [][/\ stream'.fed <= MAX_BUFFER_SIZE
       /\ ChunkOverCap(stream, stream') =>
             /\ parser' = parser
             /\ drawer' = drawer
             /\ app'.sent = Append(app.sent,
                                   [type |-> "cancel", id |-> app.currentId])]_vars

\* a session over the cap: the chunk that went over it and a later one were
\* not fed
SessionOverCap ==
    /\ stream.received > MAX_BUFFER_SIZE
    /\ stream.fed > 0
    /\ stream.refused >= 2
    /\ app.status = "Drawing too complex"
    /\ app.sent[Len(app.sent)] = [type |-> "cancel", id |-> app.currentId]

(***************************************************************************)
(* The parser fed fragments and reset at any moment.  The record in stream  *)
(* keeps the fragments fed since the last reset(), what the callbacks got   *)
(* since then, the number of resets, and whether the last reset() met a     *)
(* parser with a changed style, svgStarted true and text in the buffer.     *)
(***************************************************************************)
MaxResetCalls == 4

ResetPool ==
    <<SvgMarker \o <<">">> \o ElWide.text,
      SubSeq(ElPlain.text, 1, 12),
      SubSeq(ElPlain.text, 13, Len(ElPlain.text)),
      SvgMarker \o <<">">> \o ElPlain.text,
      <<"g", "a", "<", "s">>,
      <<"v", "g", ">">> \o ElBadWidth.text>>

NewResetRun ==
    [since |-> <<>>, segs |-> <<>>, warns |-> <<>>, resets |-> 0, calls |-> 0,
     dirty |-> FALSE]

InitReset ==
    /\ parser = NewParser
    /\ stream = NewResetRun
    /\ walk = NewWalk(<<>>)
    /\ drawer = NewDrawer
    /\ app = NewApp

\* parser.feed of a fragment of the pool
ResetFeed(f) ==
    /\ ~parser.hung
    /\ stream.calls < MaxResetCalls
    /\ \E r \in {Feed(parser, ResetPool[f])} :
          /\ parser' = r.parser
          /\ stream' = [stream EXCEPT !.since = Append(@, f), !.calls = @ + 1,
                                      !.segs = @ \o r.segs,
                                      !.warns = @ \o r.warns]
    /\ UNCHANGED <<walk, drawer, app>>

\* parser.reset()
ResetParser ==
    /\ ~parser.hung
    /\ stream.since # <<>>
    /\ parser' = Reset(parser)
    /\ stream' = [stream EXCEPT !.since = <<>>, !.segs = <<>>, !.warns = <<>>,
                                !.resets = @ + 1,
                                !.dirty = /\ parser.currentStyle # DefaultStyle
                                          /\ parser.svgStarted
                                          /\ parser.buffer # <<>>]
    /\ UNCHANGED <<walk, drawer, app>>

NextReset == (\E f \in 1..Len(ResetPool) : ResetFeed(f)) \/ ResetParser

SpecReset == InitReset /\ [][NextReset]_vars

\* a parser as the constructor leaves it, fed the fragments fs in turn
RECURSIVE FeedAll(_, _, _, _)
FeedAll(P, fs, segs, warns) ==
    LET Fed1(r) == FeedAll(r.parser, Tail(fs), segs \o r.segs, warns \o r.warns)
    IN  IF fs = <<>> THEN [parser |-> P, segs |-> segs, warns |-> warns]
        ELSE Fed1(Feed(P, ResetPool[Head(fs)]))

SameAsFresh(S, P, fresh) ==
    /\ P = fresh.parser
    /\ S.segs = fresh.segs
    /\ S.warns = fresh.warns

\* C21: reset() leaves an empty buffer, the style {stroke:'#000',
\* strokeWidth:3} and svgStarted false, and whatever is fed after it gives
\* the segments and warnings a new parser gives for the same fragments.
ResetRestoresInitial ==
    stream.resets > 0 =>
        /\ stream.since = <<>> =>
              /\ parser.buffer = <<>>
              /\ parser.currentStyle =
                    [stroke |-> <<"#", "0", "0", "0">>, strokeWidth |-> 3]
              /\ ~parser.svgStarted
        /\ SameAsFresh(stream, parser, FeedAll(NewParser, stream.since, <<>>, <<>>))

\* a parser with a changed style and a half-fed element was reset and has
\* emitted segments since
EmittedAfterReset ==
    /\ stream.resets = 1
    /\ stream.dirty
    /\ stream.segs # <<>>
    /\ stream.segs[1].style = DefaultStyle

\* the queue holds a segment or a segment is in progress
WorkRemains(D) == D.queue # <<>> \/ D.currentSegment # NoSegment

\* C22: between calls hasPending() is true exactly when the queue is not
\* empty or a segment is in progress, and isDrawing is true exactly then.
HasPendingExact ==
    /\ HasPending(drawer) <=> WorkRemains(drawer)
    /\ drawer.isDrawing <=> WorkRemains(drawer)

\* a frame step has left a segment in progress and nothing in the queue,
\* after another segment was completed
LastSegmentInProgress ==
    /\ drawer.lastOp = "draw"
    /\ drawer.queue = <<>>
    /\ drawer.currentSegment # NoSegment
    /\ Len(drawer.finished) >= 1
    /\ HasPending(drawer)

(***************************************************************************)
(* DrawingApp's connection: connect(), the socket's open, error and close   *)
(* events, the reconnect timers and the ping interval.  In this part the    *)
(* variable app holds the connection's fields: socket is the state of       *)
(* this.ws, timers the delays of the pending setTimeout(connect) calls,     *)
(* pingTimers the number of ping intervals running.  History: delays lists  *)
(* the delays scheduled since the last open event (or since the start),     *)
(* closes, scheduled and opens count the events, pings the pings sent.      *)
(***************************************************************************)
MaxCloses == 6

MaxPings == 1

RECONNECT_DELAYS == <<500, 2000, 5000, 10000>>

\* connect(): this.ws = new WebSocket(url)
connect(A) == [A EXCEPT !.socket = "connecting"]

\* the state init() leaves
NewConnection ==
    connect([socket |-> "none", reconnectAttempt |-> 0, timers |-> <<>>,
             pingTimers |-> 0, status |-> "", delays |-> <<>>, closes |-> 0,
             scheduled |-> 0, opens |-> 0, pings |-> 0])

\* startPing()
startPing(A) == [A EXCEPT !.pingTimers = @ + 1]

\* stopPing(): clears the interval this.pingTimer names
stopPing(A) == [A EXCEPT !.pingTimers = IF @ > 0 THEN @ - 1 ELSE @]

\* scheduleReconnect() that does not count the attempt
scheduleReconnectFlat(A) ==
    LET delay == RECONNECT_DELAYS[Min(A.reconnectAttempt, Len(RECONNECT_DELAYS) - 1) + 1]
    IN  [setStatus(A, "Reconnecting...")
            EXCEPT !.timers = Append(@, delay),
                   !.delays = Append(@, delay), !.scheduled = @ + 1]

\* scheduleReconnect()
scheduleReconnect(A) ==
    LET delay == RECONNECT_DELAYS[Min(A.reconnectAttempt, Len(RECONNECT_DELAYS) - 1) + 1]
    IN  [setStatus(A, "Reconnecting...")
            EXCEPT !.reconnectAttempt = @ + 1, !.timers = Append(@, delay),
                   !.delays = Append(@, delay), !.scheduled = @ + 1]

\* ws.onopen
onopen(A) ==
    startPing(setStatus([A EXCEPT !.reconnectAttempt = 0, !.socket = "open",
                                  !.delays = <<>>, !.opens = @ + 1], ""))

\* ws.onclose
onclose(A) ==
    scheduleReconnect(stopPing([A EXCEPT !.socket = "closed", !.closes = @ + 1]))

\* ws.onerror
onerror(A) == setStatus(A, "Connection error")

InitConnection ==
    /\ app = NewConnection
    /\ parser = NewParser
    /\ stream = NewStream(1)
    /\ walk = NewWalk(<<>>)
    /\ drawer = NewDrawer

SocketOpen ==
    /\ app.socket = "connecting"
    /\ app' = onopen(app)
    /\ UNCHANGED <<parser, stream, walk, drawer>>

SocketError ==
    /\ app.socket \in {"connecting", "open"}
    /\ app' = onerror(app)
    /\ UNCHANGED <<parser, stream, walk, drawer>>

SocketClose ==
    /\ app.socket \in {"connecting", "open"}
    /\ app.closes < MaxCloses
    /\ app' = onclose(app)
    /\ UNCHANGED <<parser, stream, walk, drawer>>

\* a reconnect timer runs out: connect()
ReconnectTimer ==
    /\ app.timers # <<>>
    /\ app' = connect([app EXCEPT !.timers = Tail(@)])
    /\ UNCHANGED <<parser, stream, walk, drawer>>

\* the ping interval ticks
PingTick ==
    /\ app.pingTimers > 0
    /\ app.pings < MaxPings
    /\ app' = IF app.socket = "open" THEN [app EXCEPT !.pings = @ + 1] ELSE app
    /\ UNCHANGED <<parser, stream, walk, drawer>>

NextConnection ==
    SocketOpen \/ SocketError \/ SocketClose \/ ReconnectTimer \/ PingTick

SpecConnection == InitConnection /\ [][NextConnection]_vars

\* the delay before the k-th attempt in a row, k = 0, 1, 2, ...
BackoffDelay(k) ==
    IF k = 0 THEN 500 ELSE IF k = 1 THEN 2000 ELSE IF k = 2 THEN 5000 ELSE 10000

\* C23: every close of the socket schedules one reconnect; the delay of the
\* k-th attempt in a row since the last open (k = 0, 1, 2, ...) is 500,
\* 2000, 5000 and 10000 from then on; an open sets the attempt counter to 0.
ReconnectBackoff ==
    /\ app.scheduled = app.closes
    /\ Len(app.timers) <= 1
    /\ app.socket = "closed" <=> Len(app.timers) = 1
    /\ \A k \in 1..Len(app.delays) : app.delays[k] = BackoffDelay(k - 1)
    /\ app.reconnectAttempt = Len(app.delays)

\* after an open the connection was lost and five attempts were scheduled
FifthAttemptAtTenSeconds ==
    /\ app.opens = 1
    /\ Len(app.delays) = 5
    /\ app.delays[4] = 10000 /\ app.delays[5] = 10000
    /\ app.timers = <<10000>>

(***************************************************************************)
(* DrawingApp's input field: onInput(), onKeydown(), the clear button and   *)
(* the debounce timer, on a clock in milliseconds.  The variable stream     *)
(* holds the field: value is input.value, debounceTimer the handle stored   *)
(* in this.debounceTimer (0 for null), timers the pending setTimeout calls  *)
(* with the time they are due, handles the last handle handed out.          *)
(* History: inputs counts the input events, lastInput and typed are the     *)
(* time and the value of the last one, event names the last event, and      *)
(* requests lists the draw messages sent, each with its prompt, the time,   *)
(* what sent it and the last input event before it; keys counts the Enter   *)
(* and Escape keys and count the messages received.                         *)
(***************************************************************************)
DEBOUNCE_MS == 300

TickMs == 100

MaxTicks == 5

MaxInputs == 3

MaxFieldMessages == 1

MaxKeys == 2

TooLong == [n \in 1..(MaxPromptLength + 1) |-> "x"]

FieldValues ==
    {<<>>, <<" ">>, <<"c", "a", "t">>, <<" ", "c", "a", "t", "s", " ">>, TooLong}

\* String.prototype.trim()
RECURSIVE trim(_)
trim(value) ==
    IF value = <<>> THEN <<>>
    ELSE IF IsWs(Head(value)) THEN trim(Tail(value))
    ELSE IF IsWs(value[Len(value)]) THEN trim(SubSeq(value, 1, Len(value) - 1))
    ELSE value

NewField ==
    [value |-> <<>>, debounceTimer |-> 0, timers |-> {}, handles |-> 0,
     now |-> 0, ticks |-> 0, inputs |-> 0, lastInput |-> 0, typed |-> <<>>,
     event |-> "none", requests |-> <<>>, count |-> 0, keys |-> 0]

\* if (this.debounceTimer) clearTimeout(this.debounceTimer)
clearDebounce(S) ==
    IF S.debounceTimer # 0
    THEN [S EXCEPT !.timers = {t \in @ : t.id # S.debounceTimer}]
    ELSE S

\* this.debounceTimer = setTimeout(() => this.sendDraw(), DEBOUNCE_MS)
setDebounce(S) ==
    [S EXCEPT !.handles = @ + 1, !.debounceTimer = S.handles + 1,
              !.timers = @ \cup {[id |-> S.handles + 1, at |-> S.now + DEBOUNCE_MS]}]

\* onInput() that leaves the pending timer running
OnInputKeepsTimer(W, S) ==
    IF trim(S.value) = <<>>
    THEN [world |-> ClearCanvas(W), field |-> S]
    ELSE [world |-> W, field |-> setDebounce(S)]

\* onInput()
OnInput(W, S) ==
    IF trim(S.value) = <<>>
    THEN [world |-> ClearCanvas(W), field |-> clearDebounce(S)]
    ELSE [world |-> W, field |-> setDebounce(clearDebounce(S))]

\* sendDraw() on the field's value; by is what called it
FieldSendDraw(W, S, open, by) ==
    LET Sent(W2) ==
            IF Len(W2.app.sent) > Len(W.app.sent)
               /\ W2.app.sent[Len(W2.app.sent)].type = "draw"
            THEN [S EXCEPT !.requests =
                     Append(@, [prompt |-> trim(S.value), at |-> S.now, by |-> by,
                                id |-> W2.app.sent[Len(W2.app.sent)].id,
                                input |-> S.inputs, lastInput |-> S.lastInput,
                                typed |-> S.typed])]
            ELSE S
        Both(W2) == [world |-> W2, field |-> Sent(W2)]
    IN  Both(SendDraw(W, Len(trim(S.value)), open))

\* onKeydown(e), e.key === 'Enter'
OnEnter(W, S, open) == FieldSendDraw(W, clearDebounce(S), open, "enter")

\* clearInput(), from the clear button or the Escape key
FieldClearInput(W, S, open) ==
    [world |-> ClearInput(W, open), field |-> [S EXCEPT !.value = <<>>]]

InitField ==
    /\ app = NewApp
    /\ parser = NewParser
    /\ drawer = NewDrawer
    /\ stream = NewField
    /\ walk = NewWalk(<<>>)

\* the user edits the field: an input event
FieldInput ==
    /\ stream.inputs < MaxInputs
    /\ \E v \in FieldValues \ {stream.value} :
          \E r \in {OnInput(TheWorld,
                            [stream EXCEPT !.value = v, !.inputs = @ + 1,
                                           !.lastInput = stream.now, !.typed = v,
                                           !.event = "input"])} :
             SessionReturned(r.world, r.field, "onInput", "", 0)

FieldEnter ==
    /\ app.issued < MaxRequests
    /\ stream.keys < MaxKeys
    /\ \E open \in BOOLEAN :
          \E r \in {OnEnter(TheWorld,
                            [stream EXCEPT !.event = "enter", !.keys = @ + 1],
                            open)} :
             SessionReturned(r.world, r.field, "onKeydown", "", 0)

FieldEscape ==
    /\ stream.keys < MaxKeys
    /\ \E open \in BOOLEAN :
          \E r \in {FieldClearInput(TheWorld,
                                    [stream EXCEPT !.event = "escape", !.keys = @ + 1],
                                    open)} :
             SessionReturned(r.world, r.field, "clearInput", "", 0)

\* the debounce timer runs out
FieldTimer ==
    /\ app.issued < MaxRequests
    /\ \E t \in stream.timers, open \in BOOLEAN :
          /\ t.at <= stream.now
          /\ \E r \in {FieldSendDraw(TheWorld,
                                     [stream EXCEPT !.timers = @ \ {t},
                                                    !.event = "timer"],
                                     open, "timer")} :
                SessionReturned(r.world, r.field, "sendDraw", "", 0)

\* time passes, up to the next timer that is due
FieldTick ==
    /\ stream.ticks < MaxTicks
    /\ \A t \in stream.timers : t.at > stream.now
    /\ \E to \in {stream.now + TickMs} \cup {t.at : t \in stream.timers} :
          /\ \A t \in stream.timers : to <= t.at
          /\ to <= stream.now + TickMs
          /\ stream' = [stream EXCEPT !.now = to, !.ticks = @ + 1, !.event = "tick"]
    /\ UNCHANGED <<app, parser, drawer, walk>>

\* a chunk of a request arrives
FieldMessage ==
    /\ stream.count < MaxFieldMessages
    /\ \E id \in 1..app.issued :
          SessionReturned(HandleMessage(TheWorld, Msg("chunk", id, Chunk1, ""), TRUE),
                          [stream EXCEPT !.count = @ + 1, !.event = "message"],
                          "message", "chunk", id)

NextField ==
    FieldInput \/ FieldEnter \/ FieldEscape \/ FieldTimer \/ FieldTick \/ FieldMessage

SpecField == InitField /\ [][NextField]_vars

\* request j was sent by the timer, DEBOUNCE_MS after the last input event,
\* with the prompt that event left in the field
SentAfterQuiet(r) ==
    r.by = "timer" =>
        /\ r.at = r.lastInput + DEBOUNCE_MS
        /\ r.prompt = trim(r.typed)

\* C24: at most one debounce timer is pending, the one of the last input
\* event; a draw request sent by the timer goes out 300 ms after the last
\* input event with the prompt of that event, once per input event; Enter
\* leaves no timer pending, and the timer sends nothing for an input event
\* that Enter has sent.
DebounceOnce ==
    /\ Cardinality(stream.timers) <= 1
    /\ \A t \in stream.timers :
          /\ t.id = stream.debounceTimer
          /\ t.at = stream.lastInput + DEBOUNCE_MS
    /\ stream.event = "enter" => stream.timers = {}
    /\ \A j \in 1..Len(stream.requests) :
          /\ SentAfterQuiet(stream.requests[j])
          /\ \A i \in 1..(j - 1) :
                stream.requests[j].by = "timer" =>
                    stream.requests[j].input > stream.requests[i].input

\* three input events within 200 ms, and one request 300 ms after the last
BurstSentOnce ==
    /\ Len(stream.requests) = 1
    /\ stream.requests[1].by = "timer"
    /\ stream.requests[1].input = 3
    /\ stream.requests[1].at = 500
    /\ stream.event = "timer"

\* the trimmed prompt is one sendDraw() refuses
Refused(value) == trim(value) = <<>> \/ Len(trim(value)) > MaxPromptLength

\* the step from (S, A, P, D) to (S2, A2, P2, D2) ran sendDraw() on a prompt
\* it refuses, or onInput() on a field that has been emptied
ValidatedStep(S, A, P, D, S2, A2, P2, D2) ==
    /\ S2.event \in {"enter", "timer"} /\ Refused(S2.value) =>
          /\ A2.sent = A.sent
          /\ A2.currentId = A.currentId
          /\ P2 = P
          /\ D2 = D
    /\ S2.event = "input" /\ trim(S2.value) = <<>> =>
          /\ A2.sent = A.sent
          /\ P2.buffer = <<>> /\ ~P2.svgStarted /\ P2.currentStyle = DefaultStyle
          /\ D2.ink = {} /\ D2.queue = <<>> /\ D2.currentSegment = NoSegment
          /\ ~HasPending(D2)

MaxStatements == 4

SubpathStatements ==
    {<<CmdTok("M"), NumTok(10), NumTok(20)>>,
     <<CmdTok("m"), NumTok(5), NumTok(-3)>>,
     <<CmdTok("M"), NumTok(1), NumTok(2), NumTok(30), NumTok(40)>>,
     <<CmdTok("L"), NumTok(7), NumTok(9)>>,
     <<CmdTok("l"), NumTok(1), NumTok(2)>>,
     <<CmdTok("Z")>>, <<CmdTok("z")>>}

\* the path data of k statements
RECURSIVE SubpathLists(_)
SubpathLists(k) ==
    IF k = 0 THEN {<<>>}
    ELSE {s \o r : s \in SubpathStatements, r \in SubpathLists(k - 1)}

InitSubpaths ==
    /\ walk \in {NewWalk(tokens) :
                    tokens \in UNION {SubpathLists(k) : k \in 1..MaxStatements}}
    /\ parser = NewParser
    /\ stream = NewStream(1)
    /\ drawer = NewDrawer
    /\ app = NewApp

SpecSubpaths == InitSubpaths /\ [][NextWalk]_vars

\* the target of the last MoveTo among segs, (0, 0) when there is none
RECURSIVE LastMoveto(_)
LastMoveto(segs) ==
    IF segs = <<>> THEN [x |-> 0, y |-> 0]
    ELSE IF segs[Len(segs)].type = "M"
    THEN [x |-> segs[Len(segs)].x, y |-> segs[Len(segs)].y]
    ELSE LastMoveto(SubSeq(segs, 1, Len(segs) - 1))

\* the iteration from W to N at a moveto: its MoveTo goes to the target, the
\* sub-path starts there, and so does the pen when no lineto pair follows
MovetoStep(W, N, c) ==
    LET seg == N.segs[Len(W.segs) + 1]
        dx == W.tokens[W.i + 1].v
        dy == W.tokens[W.i + 2].v
    IN  /\ seg.type = "M"
        /\ c = "M" => seg.x = dx /\ seg.y = dy
        /\ c = "m" => seg.x = W.currentX + dx /\ seg.y = W.currentY + dy
        /\ N.startX = seg.x /\ N.startY = seg.y
        /\ Len(N.segs) = Len(W.segs) + 1 =>
              N.currentX = seg.x /\ N.currentY = seg.y

\* the iteration from W to N at a closepath
ClosepathStep(W, N) ==
    LET seg == N.segs[Len(N.segs)]
        to == LastMoveto(W.segs)
    IN  /\ Len(N.segs) = Len(W.segs) + 1
        /\ seg.type = "Z" /\ seg.x = to.x /\ seg.y = to.y
        /\ N.currentX = to.x /\ N.currentY = to.y
        /\ N.startX = W.startX /\ N.startY = W.startY

\* the iteration from W to N at a relative lineto that follows a closepath
AfterCloseStep(W, N) ==
    LET seg == N.segs[Len(W.segs) + 1]
        to == LastMoveto(W.segs)
    IN  /\ seg.type = "L"
        /\ seg.x = to.x + W.tokens[W.i + 1].v
        /\ seg.y = to.y + W.tokens[W.i + 2].v

SubpathStep(W, N) ==
    LET c == W.tokens[W.i].c
    IN  /\ c \in {"M", "m"} => MovetoStep(W, N, c)
        /\ c \in {"Z", "z"} => ClosepathStep(W, N)
        /\ (c = "l" /\ W.segs # <<>> /\ W.segs[Len(W.segs)].type = "Z")
              => AfterCloseStep(W, N)

\* C26: every M/m emits a MoveTo to its target and makes it the sub-path
\* start and the pen; every Z/z emits a ClosePath to the target of the last
\* moveto of the path data ((0,0) if none) and puts the pen there, so a
\* relative lineto after Z starts from the sub-path start.
SubpathTracking ==
    [][walk.i <= Len(walk.tokens) => SubpathStep(walk, walk')]_vars

\* M 10 20 M 1 2 30 40 z l 1 2: the second sub-path is closed to (1, 2) and
\* the relative lineto goes to (2, 4)
SecondSubpathClosed ==
    /\ walk.i > Len(walk.tokens)
    /\ Len(walk.segs) = 5
    /\ walk.segs[1].type = "M" /\ walk.segs[1].x = 10
    /\ walk.segs[3].type = "L" /\ walk.segs[3].x = 30
    /\ walk.segs[4].type = "Z" /\ walk.segs[4].x = 1 /\ walk.segs[4].y = 2
    /\ walk.segs[5].type = "L" /\ walk.segs[5].x = 2 /\ walk.segs[5].y = 4

(***************************************************************************)
(* The token walk over path data with a smooth-curve command: an optional   *)
(* moveto, S, s, T or t with one or two parameter groups, and an optional   *)
(* following command.                                                       *)
(***************************************************************************)
SmoothCommands == {"S", "s", "T", "t"}

\* the parameters of one smooth command: x2 y2 x y, or x y
SmoothParams(c) == IF c \in {"S", "s"} THEN 4 ELSE 2

SmoothPool ==
    UNION {UNION {{<<CmdTok(c)>> \o r : r \in Rows(SmoothParams(c), k)} :
                  k \in 1..MaxGroups} : c \in SmoothCommands}

InitSmooth ==
    /\ walk \in {NewWalk(p \o s \o t) :
                    p \in Prefixes, s \in SmoothPool, t \in Suffixes}
    /\ parser = NewParser
    /\ stream = NewStream(1)
    /\ drawer = NewDrawer
    /\ app = NewApp

SpecSmooth == InitSmooth /\ [][NextWalk]_vars

\* the walk W stands on S, s, T or t followed by exactly its parameters
AtSmooth(W) ==
    /\ W.i <= Len(W.tokens)
    /\ ~IsNumTok(W.tokens[W.i])
    /\ W.tokens[W.i].c \in SmoothCommands
    /\ NumRun(W.tokens, W.i + 1) = SmoothParams(W.tokens[W.i].c)

\* the walk W with the smooth command it stands on taken out of the path data
WithoutSmooth(W) ==
    [W EXCEPT !.tokens =
        SubSeq(W.tokens, 1, W.i - 1)
        \o SubSeq(W.tokens, W.i + 1 + SmoothParams(W.tokens[W.i].c), Len(W.tokens))]

SmoothSkippedStep(W, N) ==
    /\ N.segs = W.segs
    /\ Len(N.warns) = Len(W.warns) + 1
    /\ SubSeq(N.warns, 1, Len(W.warns)) = W.warns
    /\ N.warns[Len(N.warns)].type = "unknown_command"
    /\ N.warns[Len(N.warns)].details.command = W.tokens[W.i].c
    /\ N.i = W.i + 1 + SmoothParams(W.tokens[W.i].c)
    /\ N.currentX = W.currentX /\ N.currentY = W.currentY
    /\ N.startX = W.startX /\ N.startY = W.startY
    /\ SameRest(WalkAll(N, DefaultStyle, <<>>),
                WalkAll(WithoutSmooth(W), DefaultStyle, <<>>))

\* C27: an S/s followed by its 4 numbers, or a T/t followed by its 2, emits
\* one unsupported-command warning and no segment, consumes exactly those
\* numbers, leaves the pen where it was, and what follows is parsed as if
\* the command had not been there.
SmoothSkipAlignment == [][AtSmooth(walk) => SmoothSkippedStep(walk, walk')]_vars

\* M10 20 S.. l1 2 walked to the end: MoveTo, one warning, LineTo(11,22)
SmoothThenRelativeLineto ==
    /\ Len(walk.tokens) = 11
    /\ walk.tokens[4] = CmdTok("S")
    /\ walk.tokens[9] = CmdTok("l")
    /\ walk.i = 12
    /\ Len(walk.warns) = 1
    /\ Len(walk.segs) = 2
    /\ walk.segs[2].type = "L" /\ walk.segs[2].x = 11 /\ walk.segs[2].y = 22

\* the text fed so far in the run S
FedUpTo(S) == SubSeq(Docs[S.doc], 1, S.pos)

\* the last n characters of text, all of it when it is shorter
LastOf(text, n) ==
    IF Len(text) > n THEN SubSeq(text, Len(text) - n + 1, Len(text)) ELSE text

\* the feed() that took the parser from P to N and the run to S
WindowStep(P, N, S) ==
    /\ ~N.svgStarted => N.buffer = LastOf(FedUpTo(S), 100)
    /\ (~P.svgStarted /\ N.svgStarted) =>
          /\ IndexOf(FedUpTo(S), SvgMarker) # 0
          /\ N.buffer =
                OneShot(SliceFrom(FedUpTo(S), IndexOf(FedUpTo(S), SvgMarker))).parser.buffer
    /\ P.svgStarted => N.svgStarted

\* C28: after a feed() that returns with svgStarted false the buffer is the
\* last 100 characters of the text fed so far (all of it when shorter); the
\* feed() that completes the marker leaves the buffer a parser fed only the
\* text from the marker on would have, and sets svgStarted, which no later
\* feed() clears.
PreambleWindowKept == [][WindowStep(parser, parser', stream')]_vars

\* a preamble longer than the window was cut, the marker arrived in two
\* fragments and the document has been fed to its end
CutPreambleThenStarted ==
    /\ stream.trimmed
    /\ stream.splitMarker
    /\ parser.svgStarted
    /\ stream.pos = Len(TheDoc)

\* addSegment or a frame callback took the renderer from D to N; when it
\* began a MoveTo, it completed it
MoveStep(D, N) ==
    LET seg == N.log[N.begun[Len(N.begun)].uid]
    IN  (N.lastOp \in {"addSegment", "draw"}
         /\ Len(N.begun) = Len(D.begun) + 1 /\ seg.type = "M")
        => /\ Len(N.finished) = Len(D.finished) + 1
           /\ N.finished[Len(N.finished)].uid = N.begun[Len(N.begun)].uid
           /\ N.penX = R(seg.x) /\ N.penY = R(seg.y)
           /\ N.pathStarted
           /\ N.currentSegment = NoSegment

MoveNeverInProgress(D, N) ==
    /\ N.currentSegment # NoSegment => N.currentSegment.type # "M"
    /\ MoveStep(D, N)

\* C29: a MoveTo is begun and completed inside one frame step: after no
\* step is the segment in progress a MoveTo, and the step that begins a
\* MoveTo leaves the pen on its target, pathStarted true and no segment in
\* progress.
MoveToInstantaneous == [][MoveNeverInProgress(drawer, drawer')]_vars

\* a frame callback took a MoveTo off the queue behind a finished segment
\* and completed it, with a segment still queued
MoveCompletedInFrame ==
    /\ drawer.lastOp = "draw"
    /\ Len(drawer.finished) = 2
    /\ drawer.log[2].type = "M"
    /\ drawer.finished[2].uid = 2
    /\ Len(drawer.begun) = 2
    /\ drawer.currentSegment = NoSegment
    /\ drawer.pathStarted
    /\ drawer.queue # <<>>

(***************************************************************************)
(* The progress of one drawn segment in double precision.  The renderer's   *)
(* model above computes with exact fractions; the number of frame steps a   *)
(* segment takes depends on how the sums of the increment are rounded, so   *)
(* here segmentProgress is a double: [e, hi, lo] stands for                 *)
(* (hi * 2^27 + lo) * 2^(e - 52) with 2^25 <= hi < 2^26 and lo < 2^27, and  *)
(* hi = lo = 0 for 0.  Division and addition round to nearest, ties to      *)
(* even.  The segment is a line of a whole number of pixels, whose length   *)
(* Math.sqrt gives exactly.  In this part the variable drawer holds the     *)
(* fields of the animation: segmentLength, segmentProgress, whether a       *)
(* segment is in progress, and as history the progress before the last step *)
(* and the number of steps taken.                                           *)
(***************************************************************************)
MaxLength == 60

RECURSIVE Pow2(_)
Pow2(k) == IF k = 0 THEN 1 ELSE 2 * Pow2(k - 1)

LoBits == 27

HiBits == 26

Dbl(e, hi, lo) == [e |-> e, hi |-> hi, lo |-> lo]

DblZero == Dbl(0, 0, 0)

DblOne == Dbl(0, Pow2(HiBits - 1), 0)

\* the next double above the mantissa (hi, lo) at exponent e
DblUp(e, hi, lo) ==
    IF lo + 1 < Pow2(LoBits) THEN Dbl(e, hi, lo + 1)
    ELSE IF hi + 1 < Pow2(HiBits) THEN Dbl(e, hi + 1, 0)
    ELSE Dbl(e + 1, Pow2(HiBits - 1), 0)

\* round to nearest, ties to even: rest is what lies below the last bit, in
\* units of 1 / unit of that bit
DblRound(e, hi, lo, rest, unit) ==
    IF 2 * rest > unit \/ (2 * rest = unit /\ lo % 2 = 1)
    THEN DblUp(e, hi, lo)
    ELSE Dbl(e, hi, lo)

\* k more bits of the quotient of r / d, r < d, behind the bits acc
RECURSIVE QuotientBits(_, _, _, _)
QuotientBits(r, d, k, acc) ==
    IF k = 0 THEN [acc |-> acc, r |-> r]
    ELSE IF 2 * r >= d THEN QuotientBits(2 * r - d, d, k - 1, 2 * acc + 1)
    ELSE QuotientBits(2 * r, d, k - 1, 2 * acc)

\* n / d brought to d <= n < 2 * d, with the power of two taken out
RECURSIVE Scaled(_, _, _)
Scaled(n, d, e) ==
    IF n >= 2 * d THEN Scaled(n, 2 * d, e + 1)
    ELSE IF n < d THEN Scaled(2 * n, d, e - 1)
    ELSE [n |-> n, d |-> d, e |-> e]

\* the double n / d of two whole numbers n, d > 0
DblDiv(n, d) ==
    LET Low(s, h) ==
            LET l == QuotientBits(h.r, s.d, LoBits, 0)
            IN  DblRound(s.e, h.acc, l.acc, l.r, s.d)
        High(s) == Low(s, QuotientBits(s.n - s.d, s.d, HiBits - 1, 1))
    IN  High(Scaled(n, d, 0))

\* the double a + b of two doubles a >= b > 0 whose exponents are less than
\* LoBits apart
DblAddOrdered(a, b) ==
    LET unit == Pow2(a.e - b.e)
        rest == b.lo % unit
        lo == a.lo + (b.lo \div unit) + (b.hi % unit) * Pow2(LoBits - (a.e - b.e))
        hi == a.hi + (b.hi \div unit) + (lo \div Pow2(LoBits))
        lo1 == lo % Pow2(LoBits)
    IN  IF hi < Pow2(HiBits)
        THEN DblRound(a.e, hi, lo1, rest, unit)
        ELSE DblRound(a.e + 1, hi \div 2,
                      (lo1 \div 2) + (hi % 2) * Pow2(LoBits - 1),
                      (lo1 % 2) * unit + rest, 2 * unit)

\* a <= b, for doubles a, b >= 0
DblLeq(a, b) ==
    IF a.hi = 0 THEN TRUE
    ELSE IF b.hi = 0 THEN FALSE
    ELSE IF a.e # b.e THEN a.e < b.e
    ELSE IF a.hi # b.hi THEN a.hi < b.hi
    ELSE a.lo <= b.lo

\* a + b, for doubles a, b >= 0
DblAdd(a, b) ==
    IF a.hi = 0 THEN b
    ELSE IF b.hi = 0 THEN a
    ELSE IF DblLeq(b, a) THEN DblAddOrdered(a, b)
    ELSE DblAddOrdered(b, a)

\* Math.min(1, a)
DblMin1(a) == IF DblLeq(DblOne, a) THEN DblOne ELSE a

\* beginSegmentAnimation(segment) for a line of length pixels
BeginLine(length) ==
    [segmentLength |-> length, segmentProgress |-> DblZero, inProgress |-> TRUE,
     before |-> DblZero, steps |-> 0]

\* advanceSegmentAnimation(): the progress of a drawn segment
AdvanceProgress(D) ==
    LET progressIncrement ==
            IF D.segmentLength > 0 THEN DblDiv(pixelsPerFrame, D.segmentLength)
            ELSE DblDiv(1, minFramesPerSegment)
        Advanced(progress) ==
            [D EXCEPT !.segmentProgress = progress, !.before = D.segmentProgress,
                      !.steps = @ + 1,
                      !.inProgress = ~DblLeq(DblOne, progress)]
    IN  Advanced(DblMin1(DblAdd(D.segmentProgress, progressIncrement)))

InitProgress ==
    /\ drawer \in {BeginLine(length) : length \in 0..MaxLength}
    /\ parser = NewParser
    /\ stream = NewStream(1)
    /\ walk = NewWalk(<<>>)
    /\ app = NewApp

\* a frame step while the segment is in progress
ProgressStep ==
    /\ drawer.inProgress
    /\ drawer' = AdvanceProgress(drawer)
    /\ UNCHANGED <<parser, stream, walk, app>>

NextProgress == ProgressStep

SpecProgress == InitProgress /\ [][NextProgress]_vars

\* ceil(L / pixelsPerFrame) for a length L > 0, 3 for the length 0
StepsFor(length) ==
    IF length > 0 THEN (length + 7) \div 8 ELSE 3

\* C30: the progress of the segment in progress is within [0, 1] and never
\* decreases, and a segment of length L is completed by its ceil(L / 8)-th
\* step when L > 0 and by its third step when L = 0: it is in progress
\* before that step and not after it.
ProgressSteps ==
    /\ DblLeq(DblZero, drawer.segmentProgress)
    /\ DblLeq(drawer.segmentProgress, DblOne)
    /\ DblLeq(drawer.before, drawer.segmentProgress)
    /\ drawer.inProgress <=> drawer.steps < StepsFor(drawer.segmentLength)

\* the progress P is below 1
BelowOne(P) == P.n < P.d

\* addSegment or a frame callback took the renderer from D to N: a segment
\* in progress stays the one in progress until its progress reaches 1, and
\* the step that completes a drawn segment leaves the pen on its (x, y)
CompletionStep(D, N) ==
    LET seg == N.log[N.finished[Len(N.finished)].uid]
    IN  N.lastOp \in {"addSegment", "draw"} =>
           /\ Len(N.finished) <= Len(D.finished) + 1
           /\ D.currentSegment # NoSegment => N.begun = D.begun
           /\ (D.currentSegment # NoSegment /\ N.currentSegment # NoSegment) =>
                 /\ N.currentSegment = D.currentSegment
                 /\ N.currentUid = D.currentUid
                 /\ N.finished = D.finished
           /\ N.currentSegment # NoSegment => BelowOne(N.segmentProgress)
           /\ (Len(N.finished) = Len(D.finished) + 1 /\ seg.type # "M") =>
                 /\ ~BelowOne(N.segmentProgress)
                 /\ N.penX = R(seg.x) /\ N.penY = R(seg.y)
                 /\ N.currentSegment = NoSegment
                 /\ N.pathStarted <=> seg.type # "Z"

\* C31: the frame step in which a drawn segment's progress reaches 1 puts
\* the pen on the segment's (x, y), leaves no segment in progress and leaves
\* pathStarted false after a ClosePath and true after a LineTo, QuadraticTo
\* or CubicTo; while the progress is below 1 the segment stays in progress
\* and no other segment is dequeued.
CompletionInStep == [][CompletionStep(drawer, drawer')]_vars

\* a frame callback completed a ClosePath with another segment still queued
ClosePathCompletedInFrame ==
    /\ drawer.lastOp = "draw"
    /\ drawer.finished # <<>>
    /\ drawer.log[drawer.finished[Len(drawer.finished)].uid].type = "Z"
    /\ drawer.penX = R(16) /\ drawer.penY = R(0)
    /\ ~drawer.pathStarted
    /\ drawer.currentSegment = NoSegment
    /\ drawer.queue # <<>>

\* C32: after addSegment, a frame step, flush() or clear() has returned, a
\* frame callback is scheduled exactly when the queue is not empty or a
\* segment is in progress: the loop does not stop while work remains and
\* asks for no frame once the work is exhausted.
LoopScheduling == drawer.frames # {} <=> WorkRemains(drawer)

\* the last frame callback completed the last of three segments and asked
\* for no further frame
LoopStoppedWhenExhausted ==
    /\ drawer.lastOp = "draw"
    /\ Len(drawer.finished) = MaxSegments
    /\ drawer.frames = {}
    /\ ~drawer.isDrawing
    /\ drawer.queue = <<>> /\ drawer.currentSegment = NoSegment

(***************************************************************************)
(* The renderer between display refreshes: segments are enqueued and the    *)
(* browser runs frame callbacks.  The variable stream counts the per-frame  *)
(* steps (a segment taken off the queue and advanced) that ran outside a    *)
(* frame callback since the last frame callback returned.                   *)
(***************************************************************************)
NewRefresh == [steps |-> 0]

InitRefresh ==
    /\ drawer = NewDrawer
    /\ stream = NewRefresh
    /\ parser = NewParser
    /\ walk = NewWalk(<<>>)
    /\ app = NewApp

\* addSegment(segment), called by the parser's onSegment callback
RefreshAdd ==
    /\ drawer.added < MaxSegments
    /\ \E segment \in SegPool :
          \E N \in {AddSegment(drawer, segment)} :
             /\ drawer' = N
             /\ stream' = [stream EXCEPT
                              !.steps = IF Len(N.begun) > Len(drawer.begun)
                                        THEN @ + 1 ELSE @]
    /\ UNCHANGED <<parser, walk, app>>

\* the display refreshes: the browser runs the frame callback
RefreshFrame ==
    /\ \E id \in drawer.frames : drawer' = RunFrame(drawer, id)
    /\ stream' = NewRefresh
    /\ UNCHANGED <<parser, walk, app>>

NextRefresh == RefreshAdd \/ RefreshFrame

SpecRefresh == InitRefresh /\ [][NextRefresh]_vars

\* C33: between two display-refresh callbacks the renderer runs at most one
\* per-frame step, however many segments addSegment enqueues meanwhile.
OneStepPerRefresh == stream.steps <= 1

\* C34: at most one frame callback of the renderer is outstanding, and it
\* is the one animationId names, which stopDrawing() cancels.
SingleFrameOutstanding ==
    /\ Cardinality(drawer.frames) <= 1
    /\ drawer.frames \subseteq {drawer.animationId}
    /\ drawer.frames # {} => drawer.isDrawing

\* the animation was restarted by addSegment after a clear() that cancelled
\* a frame callback
RestartedAfterClear ==
    /\ drawer.lastOp = "addSegment"
    /\ Len(drawer.begun) >= 2
    /\ drawer.begun[1].after = 0
    /\ drawer.begun[Len(drawer.begun)].after >= 1
    /\ drawer.currentSegment # NoSegment
    /\ Cardinality(drawer.frames) = 1

\* C35: no command letter is consumed as a parameter: the tokens an
\* iteration of parseD's loop passes over, behind the letter it dispatches,
\* are all numeric.
LettersDispatched ==
    [][\A j \in (walk.i + 1)..(walk'.i - 1) : IsNumTok(walk.tokens[j])]_vars

(***************************************************************************)
(* The parser fed one path element that carries another attribute beside    *)
(* d, in every fragmentation.  The d attribute of every document is         *)
(* "M1 2 L3 4".                                                             *)
(***************************************************************************)
\* <svg><path id="p1" d="M1 2 L3 4"/>
AttrDocIdFirst ==
    <<"<","s","v","g",">","<","p","a","t","h"," ","i","d","=","\"","p","1","\""," ","d","=",
    "\"","M","1"," ","2"," ","L","3"," ","4","\"","/",">">>

\* <svg><path id="L5" d="M1 2 L3 4"/>
AttrDocIdLine ==
    <<"<","s","v","g",">","<","p","a","t","h"," ","i","d","=","\"","L","5","\""," ","d","=",
    "\"","M","1"," ","2"," ","L","3"," ","4","\"","/",">">>

\* <svg><path d="M1 2 L3 4" id="p1"/>
AttrDocIdLast ==
    <<"<","s","v","g",">","<","p","a","t","h"," ","d","=","\"","M","1"," ","2"," ","L","3"," ",
    "4","\""," ","i","d","=","\"","p","1","\"","/",">">>

\* <svg><path class="p1" d="M1 2 L3 4"/>
AttrDocClass ==
    <<"<","s","v","g",">","<","p","a","t","h"," ","c","l","a","s","s","=","\"","p","1","\""," ",
    "d","=","\"","M","1"," ","2"," ","L","3"," ","4","\"","/",">">>

\* <svg><path d="M1 2 L3 4"/>
AttrDocPlain ==
    <<"<","s","v","g",">","<","p","a","t","h"," ","d","=","\"","M","1"," ","2"," ","L","3"," ",
    "4","\"","/",">">>

AttrDocs == <<AttrDocIdFirst, AttrDocIdLine, AttrDocIdLast, AttrDocClass, AttrDocPlain>>

NewAttrRun(n) == [doc |-> n, pos |-> 0, segs |-> <<>>, warns |-> <<>>]

InitAttributes ==
    /\ parser = NewParser
    /\ stream \in {NewAttrRun(n) : n \in 1..Len(AttrDocs)}
    /\ walk = NewWalk(<<>>)
    /\ drawer = NewDrawer
    /\ app = NewApp

\* the next k characters of the document arrive as one fragment: parser.feed
AttrFeed(k) ==
    /\ ~parser.hung
    /\ stream.pos + k <= Len(AttrDocs[stream.doc])
    /\ \E r \in {Feed(parser, SubSeq(AttrDocs[stream.doc], stream.pos + 1, stream.pos + k))} :
          /\ parser' = r.parser
          /\ stream' = [stream EXCEPT !.pos = @ + k, !.segs = @ \o r.segs,
                                      !.warns = @ \o r.warns]
    /\ UNCHANGED <<walk, drawer, app>>

NextAttributes == \E k \in 1..Len(AttrDocPlain) : AttrFeed(k)

SpecAttributes == InitAttributes /\ [][NextAttributes]_vars

\* C37: the path data parsed for an element is the value of its d
\* attribute, also when an attribute whose name ends in d stands before it:
\* once the element has been fed, the segments emitted are those of
\* <path d="M1 2 L3 4"/> and the parser has returned.
PathDataIsAttributeD ==
    stream.pos = Len(AttrDocs[stream.doc]) =>
        /\ ~parser.hung
        /\ stream.segs = OneShot(AttrDocPlain).segs

\* the completed segments of D, oldest first
FinishedUids(D) == [j \in 1..Len(D.finished) |-> D.finished[j].uid]

\* the segment in progress in D, if any
InProgressUid(D) == IF D.currentSegment # NoSegment THEN <<D.currentUid>> ELSE <<>>

\* what holds of the state N that a step has made of D, for flush()
FlushStep(D, N) ==
    /\ N.lastOp = "flush" =>
          /\ N.queue = <<>>
          /\ N.currentSegment = NoSegment
          /\ ~N.isDrawing
          /\ N.frames = {}
          /\ FinishedUids(N) = FinishedUids(D) \o InProgressUid(D) \o D.uids
          /\ Flush(N) = N
    /\ D.lastOp = "flush" /\ N.lastOp = "addSegment" =>
          /\ Len(N.begun) = Len(D.begun) + 1
          /\ N.begun[Len(N.begun)].uid = N.added
          /\ N.segmentStartX = D.penX
          /\ N.segmentStartY = D.penY
          /\ N.currentSegment # NoSegment =>
                N.isDrawing /\ N.frames # {} /\ N.currentUid = N.added

\* C38: flush() returns with the queue empty, no segment in progress,
\* isDrawing false and no frame callback scheduled, having completed the
\* segment in progress first and then the queued segments in FIFO order; a
\* second flush() changes nothing, and the addSegment that follows a flush()
\* begins its segment at the pen position flush() left.
FlushPostcondition == [][FlushStep(drawer, drawer')]_vars

\* flush() has completed the LineTo in progress and the CubicTo queued behind
\* it: all three segments are completed, and the only partial stroke on the
\* surface is the first step of the LineTo
FlushedInProgressAndQueued ==
    /\ drawer.lastOp = "flush"
    /\ FinishedUids(drawer) = <<1, 2, 3>>
    /\ drawer.clearedUpTo = 0
    /\ drawer.log[1].type = "M"
    /\ drawer.log[2].type = "L"
    /\ drawer.log[3].type = "C"
    /\ Cardinality({j \in drawer.ink : ~j.full}) = 1

\* C39: at most one elapsed-time interval timer of startLoading is running
\* at any time, and none is running after clearCanvas or after a done,
\* cancelled or error message for the current session.
SingleElapsedTimer ==
    /\ app.intervals <= 1
    /\ app.last.op \in {"clearCanvas", "clearInput"} => app.intervals = 0
    /\ ( /\ app.last.op = "message"
         /\ app.last.type \in {"done", "cancelled", "error"}
         /\ app.last.id = app.currentId ) => app.intervals = 0

(***************************************************************************)
(* Parser and renderer together on a document of several path elements:     *)
(* every element is parsed by a parseD call of its own, each segment is     *)
(* handed to addSegment as it is emitted, and the browser runs frame        *)
(* callbacks between the elements.  History: pens[u] is the parser's        *)
(* (currentX, currentY) when it resolved the u-th segment.                  *)
(***************************************************************************)
MaxPaths == 3

PenPaths ==
    {<<CmdTok("M"), NumTok(16), NumTok(0), CmdTok("L"), NumTok(16), NumTok(12)>>,
     <<CmdTok("M"), NumTok(0), NumTok(12), CmdTok("h"), NumTok(16), CmdTok("Z")>>,
     <<CmdTok("m"), NumTok(16), NumTok(12), NumTok(0), NumTok(-12)>>,
     <<CmdTok("L"), NumTok(0), NumTok(12)>>,
     <<CmdTok("l"), NumTok(16), NumTok(0)>>}

\* the path data of k elements
RECURSIVE PenDocuments(_)
PenDocuments(k) ==
    IF k = 0 THEN {<<>>}
    ELSE {<<p>> \o r : p \in PenPaths, r \in PenDocuments(k - 1)}

\* the pens the iteration from W to N resolved its segments against: the
\* first against W's pen, each further one against the pen the group before
\* it has set, which is the end point of that group's segment
PensBefore(W, N) ==
    [j \in 1..(Len(N.segs) - Len(W.segs)) |->
        IF j = 1 THEN [x |-> W.currentX, y |-> W.currentY]
        ELSE [x |-> N.segs[Len(W.segs) + j - 1].x,
              y |-> N.segs[Len(W.segs) + j - 1].y]]

\* parseD's loop, with the pen of every segment
RECURSIVE WalkPens(_, _)
WalkPens(W, pens) ==
    IF W.i > Len(W.tokens) THEN [segs |-> W.segs, pens |-> pens]
    ELSE WalkPens(Iteration(W, DefaultStyle, <<>>),
                  pens \o PensBefore(W, Iteration(W, DefaultStyle, <<>>)))

NewPenRun(paths) == [paths |-> paths, el |-> 0, pens |-> <<>>]

InitPen ==
    /\ stream \in {NewPenRun(paths) :
                      paths \in UNION {PenDocuments(k) : k \in 1..MaxPaths}}
    /\ drawer = NewDrawer
    /\ parser = NewParser
    /\ walk = NewWalk(<<>>)
    /\ app = NewApp

\* the next path element arrives: parsePath, parseD from the pen (0, 0),
\* every segment to addSegment
PenElement ==
    /\ stream.el < Len(stream.paths)
    /\ \E r \in {WalkPens(NewWalk(stream.paths[stream.el + 1]), <<>>)} :
          /\ drawer' = AddSegments(drawer, r.segs)
          /\ stream' = [stream EXCEPT !.el = @ + 1, !.pens = @ \o r.pens]
    /\ UNCHANGED <<parser, walk, app>>

\* a frame callback runs
PenFrame ==
    /\ \E id \in drawer.frames : drawer' = RunFrame(drawer, id)
    /\ UNCHANGED <<parser, stream, walk, app>>

NextPen == PenElement \/ PenFrame

SpecPen == InitPen /\ [][NextPen]_vars

\* C36: the anchor point the renderer has recorded for the segment in
\* progress is the pen the parser resolved that segment against, for every
\* segment of every path element of the document.
PenAgreement ==
    drawer.currentSegment # NoSegment =>
        /\ drawer.segmentStartX = R(stream.pens[drawer.currentUid].x)
        /\ drawer.segmentStartY = R(stream.pens[drawer.currentUid].y)

====
